---- MODULE Spec2Model ----
(***************************************************************************)
(* Block-template assembly and mining loop of src/src/miner.cpp.           *)
(*                                                                         *)
(* One mining worker (BitcoinMiner) runs against a node whose chain tip,   *)
(* peer list and snapshot files are driven by environment actions.  The    *)
(* two template builders (CreateNewBlock, CreateNewForkBlock) are modelled *)
(* step by step: one action per mempool entry gathered, per queue entry    *)
(* popped and per snapshot record read.                                    *)
(*                                                                         *)
(* Sizes, sig-op counts and hashes are scaled down: the reserves 1000 and  *)
(* 100 keep their values, the caps sit a few units above them.             *)
(***************************************************************************)
EXTENDS Integers, Sequences, FiniteSets, TLC

----------------------------------------------------------------------------
(* Bounds of the model *)

MaxEnvSteps == 1        \* environment events (tip changes, peer changes) per run
MaxIterations == 2      \* passes of the worker through its outer loop per run
MaxPool == 3            \* transactions in the pending pool
MaxRecs == 3            \* records in a snapshot file

(* Consensus and configuration values defined outside miner.cpp, scaled *)

MAX_BLOCK_SIZE == 2012
MAX_BLOCK_SIGOPS == 104
forkCBPerBlock == 2
ForkStartHeight == 2
forkHeightRange == 2
ZUtxoMiningStartBlock == 3

(* Values miner.cpp fixes itself *)

BlockSizeReserve == 1000
BlockSigOpsReserve == 100
BlockMaxSizeFloor == 1000
FeePlaceholder == -1
ScriptSigLimit == 100

ZeroHash == 0
forkExtraHashSentinel == 7
hashPid == 9

----------------------------------------------------------------------------
(* Chain, blocks and hashes *)

OtherVariant == 1            \* a competing block at a height
MinedVariant == 2            \* the block this worker produces at a height

HashOf(h, v) == 10 + 3 * h + v

Tip(h, v) == [nHeight |-> h, hash |-> HashOf(h, v)]

isForkBlock(h) == h >= ForkStartHeight /\ h < ForkStartHeight + forkHeightRange

ForkHeights == ForkStartHeight..(ForkStartHeight + forkHeightRange - 1)

GetNextWorkRequired(prev) == 1 + (prev.nHeight % 2)

SetCompact(bits) == 2 * bits

ComputeBlockVersion(prev) == 4

GetBlockSubsidy(h) == IF h < 4 THEN 50 ELSE 25

----------------------------------------------------------------------------
(* Transactions *)

NullOutpoint == <<0, -1>>

PushNum(n) == [op |-> "push", v |-> n]
PushData(d) == [op |-> "data", v |-> d]
Op0 == [op |-> "OP_0", v |-> 0]

(* bytes CScriptNum::serialize gives a number of the size the model uses *)
NumBytes(n) == IF n = 0 THEN 0 ELSE IF n < 128 THEN 1 ELSE IF n < 32768 THEN 2 ELSE 3

(* CScript << int64: one opcode for 0..16, else a push of the serialized number *)
PushIntSize(n) == IF n \in 0..16 THEN 1 ELSE 1 + NumBytes(n)

(* width of a uint256 handed to ToByteVector *)
DataBytes == 32

(* bytes of one script element behind the leading height *)
ScriptElemSize(el) ==
    CASE el.op = "OP_0" -> 1
      [] el.op = "data" -> 1 + DataBytes
      [] el.op = "push" -> 1 + NumBytes(el.v)

RECURSIVE ScriptTailSize(_)
ScriptTailSize(s) ==
    IF s = <<>> THEN 0 ELSE ScriptElemSize(Head(s)) + ScriptTailSize(Tail(s))

(* scriptSig.size() of a coinbase script: the height went in as an int, the
   rest as CScriptNum, byte vector or opcode *)
ScriptSigSize(s) ==
    IF s = <<>> THEN 0 ELSE PushIntSize(s[1].v) + ScriptTailSize(Tail(s))

(* values of the global COINBASE_FLAGS *)
NoFlags == <<>>
ShortFlags == <<PushData(1)>>
LongFlags == <<PushData(1), PushData(2), PushData(3)>>

IsCoinBase(tx) == Len(tx.vin) = 1 /\ tx.vin[1] = NullOutpoint

RECURSIVE SumSeq(_)
SumSeq(s) == IF s = <<>> THEN 0 ELSE Head(s) + SumSeq(Tail(s))

SeqToSet(s) == {s[i] : i \in 1..Len(s)}

GetValueOut(tx) == SumSeq(tx.vout)

(* CTransaction(): no inputs, no outputs *)
EmptyTx ==
    [hash |-> 0, vin |-> <<>>, vout |-> <<>>, scriptSig |-> <<>>,
     nTxSize |-> 0, nSigOps |-> 0, nP2SH |-> 0, fFinal |-> TRUE, fCheck |-> TRUE,
     dPriorityDelta |-> 0, nFeeDelta |-> 0]

(* A template under construction or handed out.  isNull marks the NULL
   pointer a builder returns on failure. *)
NullTemplate ==
    [isNull |-> TRUE, mode |-> "none", vtx |-> <<>>, vTxFees |-> <<>>, vTxSigOps |-> <<>>,
     hashPrevBlock |-> ZeroHash, hashReserved |-> ZeroHash, nNonce |-> 0,
     nBits |-> 0, nVersion |-> 0, nHeight |-> 0]

----------------------------------------------------------------------------
(* Nonce: a NonceBits-wide value whose top and bottom FlagBits are reserved *)

NonceBits == 4
FlagBits == 1

Pow2(n) == 2 ^ n

RandHashes == {Pow2(NonceBits) - 1}

(* every value GetRandHash can return *)
AllRandHashes == 0..(Pow2(NonceBits) - 1)

(* a nonce taken from the random value as it is; C15_NonceFlagsCleared
   rejects it *)
RandomiseNonce_Raw(rand) == rand

(* nonce <<= 32; nonce >>= 16;  (scaled: << 2*FlagBits, >> FlagBits) *)
RandomiseNonce(rand) ==
    ((rand * Pow2(2 * FlagBits)) % Pow2(NonceBits)) \div Pow2(FlagBits)

----------------------------------------------------------------------------
(* Snapshot files (C1 of the design: the reader inside CreateNewForkBlock) *)

NoFile == [present |-> FALSE, recs |-> <<>>, tail |-> "eof"]

TransparentRecs ==
    { [kind |-> "utxo", amount |-> 0,  pbsize |-> 3, nSigOps |-> 0],
      [kind |-> "utxo", amount |-> 20, pbsize |-> 2, nSigOps |-> 1],
      [kind |-> "utxo", amount |-> 5,  pbsize |-> 2, nSigOps |-> 3] }

ShieldedRecs ==
    { [kind |-> "tx",   amount |-> 0, pbsize |-> 2, nSigOps |-> 0],
      [kind |-> "tx",   amount |-> 0, pbsize |-> 5, nSigOps |-> 2],
      [kind |-> "zero", amount |-> 0, pbsize |-> 0, nSigOps |-> 0] }

SeqsUpTo(S, n) == UNION {[1..k -> S] : k \in 0..n}

FilesOver(S, tails) ==
    {[present |-> TRUE, recs |-> r, tail |-> t] : r \in SeqsUpTo(S, MaxRecs), t \in tails}

TransparentFiles == FilesOver(TransparentRecs, {"eof", "trunc", "badsep"})
ShieldedFiles == FilesOver(ShieldedRecs, {"eof", "trunc"})

DefaultTransparentFile ==
    [present |-> TRUE, tail |-> "eof",
     recs |-> << [kind |-> "utxo", amount |-> 20, pbsize |-> 2, nSigOps |-> 1] >>]

DefaultShieldedFile ==
    [present |-> TRUE, tail |-> "eof",
     recs |-> << [kind |-> "tx", amount |-> 0, pbsize |-> 2, nSigOps |-> 0] >>]

----------------------------------------------------------------------------
(* Coinbase Builder: the synthetic coinbases of fork mode *)

(* width of the amount field: uint64_t amount and int64_t nValue, scaled *)
AmountBits == 5

(* arithmetic in uint64_t *)
ToUInt64(x) == x % Pow2(AmountBits)

(* conversion of a uint64_t to CAmount (int64_t) *)
ToCAmount(u) == IF u >= Pow2(AmountBits - 1) THEN u - Pow2(AmountBits) ELSE u

(* nValue = amount; if (!txNew.vout[0].nValue == 0) nValue = amount * 2 : the
   test reads (!nValue) == 0, true exactly for a non-zero nValue; the product
   is formed in uint64_t *)
ForkOutputValue(amount) ==
    IF (IF ToCAmount(amount) = 0 THEN 1 ELSE 0) = 0
    THEN ToCAmount(ToUInt64(amount * 2))
    ELSE ToCAmount(amount)

ForkScriptSig(nHeight, nBlockTx) ==
    IF nBlockTx = 0
    THEN <<PushNum(nHeight), PushNum(nBlockTx), PushData(hashPid), Op0>>
    ELSE <<PushNum(nHeight), PushNum(nBlockTx), Op0>>

(* the dummy coinbase at index 0 of a fork template *)
ForkDummyCoinbase(nHeight) ==
    [hash |-> 0, vin |-> <<NullOutpoint>>, vout |-> <<0>>,
     scriptSig |-> ForkScriptSig(nHeight, 0),
     nTxSize |-> 5, nSigOps |-> 0, nP2SH |-> 0, fFinal |-> TRUE, fCheck |-> TRUE,
     dPriorityDelta |-> 0, nFeeDelta |-> 0]

(* the coinbase built from a transparent record *)
TransparentCoinbase(rec, nHeight, nBlockTx) ==
    [hash |-> 0, vin |-> <<NullOutpoint>>, vout |-> <<ForkOutputValue(rec.amount)>>,
     scriptSig |-> ForkScriptSig(nHeight, nBlockTx),
     nTxSize |-> rec.pbsize + Len(ForkScriptSig(nHeight, nBlockTx)),
     nSigOps |-> rec.nSigOps, nP2SH |-> 0, fFinal |-> TRUE, fCheck |-> TRUE,
     dPriorityDelta |-> 0, nFeeDelta |-> 0]

(* the decoded transaction of a shielded record, reshaped to coinbase form:
   vin.resize(1), prevout null, vout.resize(1), nValue 0; no script_sig is set *)
ShieldedCoinbase(rec) ==
    [hash |-> 0, vin |-> <<NullOutpoint>>, vout |-> <<0>>, scriptSig |-> <<>>,
     nTxSize |-> rec.pbsize, nSigOps |-> rec.nSigOps, nP2SH |-> 0,
     fFinal |-> TRUE, fCheck |-> TRUE,
     dPriorityDelta |-> 0, nFeeDelta |-> 0]

----------------------------------------------------------------------------
(* The pending-transaction pool and the UTXO set it spends from *)

ChainCoins == { <<101, 0>>, <<102, 0>>, <<103, 0>> }

(* value and height of the chain outputs *)
ChainCoinValue(op) == IF op[1] = 101 THEN 50 ELSE IF op[1] = 102 THEN 40 ELSE 10
ChainCoinHeight(op) == 0

MissingHash == 999

MkTx(h, in, out, size, sigops, p2sh, final, check) ==
    [hash |-> h, vin |-> in, vout |-> out, scriptSig |-> <<>>,
     nTxSize |-> size, nSigOps |-> sigops, nP2SH |-> p2sh,
     fFinal |-> final, fCheck |-> check, dPriorityDelta |-> 0, nFeeDelta |-> 0]

TxIds == 1..9

PoolTx(h) ==
    CASE h = 1 -> MkTx(1, << <<101, 0>> >>, <<10, 10, 10>>, 3, 1, 1, TRUE, TRUE)
      [] h = 2 -> MkTx(2, << <<1, 0>> >>, <<8>>, 2, 1, 0, TRUE, TRUE)
      [] h = 3 -> MkTx(3, << <<2, 0>> >>, <<6>>, 2, 1, 1, TRUE, TRUE)
      [] h = 4 -> MkTx(4, << <<1, 1>>, <<1, 2>> >>, <<15>>, 3, 1, 0, TRUE, TRUE)
      [] h = 5 -> MkTx(5, << <<102, 0>> >>, <<40>>, 5, 0, 0, TRUE, TRUE)
      [] h = 6 -> MkTx(6, << <<5, 0>>, <<MissingHash, 0>> >>, <<30>>, 2, 0, 0, TRUE, TRUE)
      [] h = 7 -> MkTx(7, << <<103, 0>> >>, <<4>>, 2, 0, 0, FALSE, TRUE)
      [] h = 8 -> MkTx(8, << <<103, 0>> >>, <<4>>, 2, 1, 0, TRUE, FALSE)
      [] h = 9 -> MkTx(9, << <<1, 2>>, <<5, 0>> >>, <<20>>, 1, 0, 1, TRUE, TRUE)

Inputs(h) == SeqToSet(PoolTx(h).vin)

(* what the pool admits: no two entries spend the same output, and every
   input is an unspent chain output, an output of another entry, or (the
   case CreateNewBlock logs as "mempool transaction missing input") unknown *)
PoolConsistent(pool) ==
    /\ \A a \in pool : \A b \in pool : a # b => Inputs(a) \cap Inputs(b) = {}
    /\ \A a \in pool : \A op \in Inputs(a) :
          op \in ChainCoins \/ op[1] \in pool \/ op[1] = MissingHash

Pools == {pool \in SUBSET TxIds : Cardinality(pool) <= MaxPool /\ PoolConsistent(pool)}

----------------------------------------------------------------------------
(* Configuration and chain parameters *)

UIntBits == 16

(* conversion of a GetArg result to unsigned int *)
ToUInt(x) == x % Pow2(UIntBits)

Min(a, b) == IF a < b THEN a ELSE b
Max(a, b) == IF a > b THEN a ELSE b

MiningRequiresPeers(net) == net # "regtest"
MineBlocksOnDemand(net) == net = "regtest"
fPowAllowMinDifficultyBlocks(net) == net # "main"

AllowFreeThreshold == 10
minRelayTxFee == 1000

AllowFree(dPriority) == dPriority > AllowFreeThreshold

(* nBlockMaxSize = max(1000, min(MAX_BLOCK_SIZE - 1000, arg)) *)
ClampBlockMaxSize(arg) ==
    Max(BlockMaxSizeFloor, Min(MAX_BLOCK_SIZE - 1000, ToUInt(arg)))

ClampToMaxSize(nBlockMaxSize, arg) == Min(nBlockMaxSize, ToUInt(arg))

----------------------------------------------------------------------------
(* Mempool Selector: the helpers of CreateNewBlock *)

HaveCoins(view, hash) == \E op \in view : op[1] = hash

HaveInputs(view, tx) == \A i \in 1..Len(tx.vin) : tx.vin[i] \in view

OutValue(op) ==
    IF op \in ChainCoins THEN ChainCoinValue(op) ELSE PoolTx(op[1]).vout[op[2] + 1]

RECURSIVE GetValueIn(_, _)
GetValueIn(tx, i) ==
    IF i > Len(tx.vin) THEN 0 ELSE OutValue(tx.vin[i]) + GetValueIn(tx, i + 1)

(* UpdateCoins: spend the inputs, add the outputs *)
UpdateCoins(view, tx) ==
    (view \ SeqToSet(tx.vin)) \cup {<<tx.hash, n - 1>> : n \in 1..Len(tx.vout)}

(* CFeeRate(nFeePaid, nSize): satoshis per 1000 bytes *)
CFeeRate(nFeePaid, nSize) == IF nSize > 0 THEN (nFeePaid * 1000) \div nSize ELSE 0

(* a comparer that orders by priority whatever byFee says;
   C27_TriggerUnderPriorityRules rejects it *)
TxPriorityCompare_PriorityOnly(byFee, a, b) ==
    IF a.dPriority = b.dPriority THEN a.feeRate < b.feeRate
    ELSE a.dPriority < b.dPriority

(* TxPriorityCompare::operator(): a orders before b *)
TxPriorityCompare(byFee, a, b) ==
    IF byFee
    THEN IF a.feeRate = b.feeRate THEN a.dPriority < b.dPriority
         ELSE a.feeRate < b.feeRate
    ELSE IF a.dPriority = b.dPriority THEN a.feeRate < b.feeRate
         ELSE a.dPriority < b.dPriority

(* vecPriority is a bag of entries [dPriority, feeRate, ptx]; the heap's
   front is an entry no other entry orders after *)
EmptyBag == <<>>
BagAdd(b, e) == IF e \in DOMAIN b THEN [b EXCEPT ![e] = @ + 1] ELSE b @@ (e :> 1)
(* a removal that drops the whole queue with the entry;
   C28_RejectedCandidateSkipped rejects it *)
BagRemove_All(b, e) == EmptyBag

BagRemove(b, e) ==
    IF b[e] = 1 THEN [x \in DOMAIN b \ {e} |-> b[x]] ELSE [b EXCEPT ![e] = @ - 1]

HeapFront(vec, byFee) ==
    {e \in DOMAIN vec : \A e2 \in DOMAIN vec : ~TxPriorityCompare(byFee, e, e2)}

TxPriority(dPriority, feeRate, ptx) ==
    [dPriority |-> dPriority, feeRate |-> feeRate, ptx |-> ptx]

(* COrphan entries live in vOrphan, a std::list; mapDependers holds raw
   pointers to them.  orph maps each list-node address (a handle) to the entry
   stored there; live = FALSE marks a node pop_back has freed, whose memory
   still holds the old entry until the allocator hands the address out again. *)
COrphan(ptx) ==
    [ptx |-> ptx, setDependsOn |-> {}, feeRate |-> 0, dPriority |-> 0, live |-> TRUE]

AllocChoices(orph) ==
    {Cardinality(DOMAIN orph) + 1} \cup {h \in DOMAIN orph : ~orph[h].live}

(* the loop over tx.vin at lines 850-886; acc carries porphan (0 = NULL),
   dPriority, nTotalIn, fMissingInputs and the two orphan indexes *)
RECURSIVE GatherInputs(_, _, _, _, _, _)
GatherInputs(tx, i, acc, view, pool, hNew) ==
    IF i > Len(tx.vin) \/ acc.fMissingInputs THEN acc
    ELSE LET op == tx.vin[i] IN
      IF ~HaveCoins(view, op[1])
      THEN IF op[1] \notin pool
           THEN GatherInputs(tx, i + 1,
                  [acc EXCEPT !.fMissingInputs = TRUE,
                              !.orph = IF acc.porphan # 0
                                       THEN [@ EXCEPT ![acc.porphan].live = FALSE]
                                       ELSE @],
                  view, pool, hNew)
           ELSE LET a1 == IF acc.porphan = 0
                          THEN [acc EXCEPT !.porphan = hNew,
                                           !.orph = [h \in DOMAIN @ \cup {hNew} |->
                                                       IF h = hNew THEN COrphan(tx.hash)
                                                       ELSE @[h]]]
                          ELSE acc
                IN GatherInputs(tx, i + 1,
                     [a1 EXCEPT !.mapDependers[op[1]] = Append(@, a1.porphan),
                                !.orph[a1.porphan].setDependsOn = @ \cup {op[1]},
                                !.nTotalIn = @ + OutValue(op)],
                     view, pool, hNew)
      ELSE GatherInputs(tx, i + 1,
             [acc EXCEPT !.nTotalIn = @ + OutValue(op),
                         !.dPriority = @ + OutValue(op) * (acc.nHeight - ChainCoinHeight(op))],
             view, pool, hNew)

----------------------------------------------------------------------------
(* State *)

VARIABLES
    cfg,          \* network and command-line options, fixed for a run
    utxoFiles,    \* snapshot file per fork height
    chainTip,     \* chainActive.Tip(): [nHeight, hash]
    coinsTip,     \* pcoinsTip: the unspent outputs of the active chain
    mempool,      \* hashes of the transactions in the pending pool
    vNodesEmpty,  \* vNodes.empty()
    envSteps,     \* environment events so far
    pc,           \* where the worker is in BitcoinMiner
    pindexPrev,   \* BitcoinMiner's pindexPrev, read without the lock
    isNextBlockFork,
    tmpl,         \* the template being built or solved
    fk,           \* locals of the two CreateNewForkBlock overloads
    sb,           \* locals of CreateNewBlock
    wk,           \* locals of BitcoinMiner and its callbacks
    sup           \* GenerateBitcoins: its static minerThreads, the threads it made

vars == <<cfg, utxoFiles, chainTip, coinsTip, mempool, vNodesEmpty, envSteps,
          pc, pindexPrev, isNextBlockFork, tmpl, fk, sb, wk, sup>>

nodeVars == <<chainTip, coinsTip, mempool, vNodesEmpty, envSteps>>
fixedVars == <<cfg, utxoFiles, sup>>

FkIdle ==
    [tipHeight |-> 0, snappedHeight |-> 0, bFileNotFound |-> FALSE, pos |-> 1,
     nRetries |-> 0,
     nBuilds |-> 0,     \* calls of the inner builder in this call of the outer one
     nBlockSize |-> 0, nBlockSigOps |-> 0, nBlockTx |-> 0]

SbIdle ==
    [nBlockMaxSize |-> 0, nBlockPrioritySize |-> 0, nBlockMinSize |-> 0,
     nHeight |-> 0, prev |-> Tip(0, 0), view |-> {}, todo |-> <<>>,
     orph |-> <<>>, mapDependers |-> [h \in TxIds |-> <<>>], vecPriority |-> EmptyBag,
     fSortedByFee |-> FALSE, nBlockSize |-> 0, nBlockTx |-> 0, nBlockSigOps |-> 0,
     nFees |-> 0,
     nSwitches |-> 0,   \* how often lines 946-950 ran in this pass
     trigger |-> 0,     \* the transaction at which they ran last (0: none)
     skipAt |-> -1,     \* nBlockTx when a candidate was first turned down (-1: none)
     nPushed |-> [h \in TxIds |-> 0]]  \* push_back calls on vecPriority per transaction

WkInit ==
    [hashTarget |-> 0, cancelSolver |-> FALSE, subscribed |-> TRUE,
     nExtraNonce |-> 0, hashPrevBlock |-> ZeroHash, candHash |-> 0, nIterations |-> 0,
     lastSubmit |-> "none",   \* how the last ProcessBlockFound ended
     lastPrev |-> ZeroHash,   \* hashPrevBlock of this worker's last IncrementExtraNonce call
     rand |-> 0,              \* what GetRandHash returned for the template held
     nTransactionsUpdatedLast |-> 0,
     interruptRequested |-> FALSE,   \* boost's interruption flag of this thread
     nBitsBuilt |-> 0,        \* nBits of the template held as its builder set them
     nSolves |-> 0,           \* solver runs on the template held
     nAdvances |-> 0]         \* runs of line 1417 on the template held

(* the worker holds cs_main (and mempool.cs) across the whole selection *)
WorkerHoldsMain == pc \in {"StdGather", "StdSelect", "StdFinish"}

(* a file system with a snapshot for every height; C36_ForkTemplateAtForkHeight
   rejects it *)
FileAt_Any(h) == IF h \in DOMAIN utxoFiles THEN utxoFiles[h] ELSE DefaultTransparentFile

FileAt(h) == IF h \in DOMAIN utxoFiles THEN utxoFiles[h] ELSE NoFile

----------------------------------------------------------------------------
(* Initial states *)

Networks == {"main", "test", "regtest"}

DefaultCfg(net) ==
    [net |-> net, blockmaxsize |-> 1010, blockprioritysize |-> 1005,
     blockminsize |-> 0, keyOk |-> TRUE,
     solver |-> IF net = "test" THEN "tromp" ELSE "default",
     rands |-> RandHashes, coinbaseFlags |-> NoFlags]

DefaultFiles ==
    [h \in ForkHeights |->
        IF h = ZUtxoMiningStartBlock THEN DefaultShieldedFile ELSE DefaultTransparentFile]

(* standard-mode scenarios: the pool and the size options vary *)
StdScenarios ==
    {[cfg |-> DefaultCfg("main"), files |-> DefaultFiles, pool |-> p, height |-> 0] :
        p \in Pools}
    \cup
    {[cfg |-> DefaultCfg(n), files |-> DefaultFiles, pool |-> p, height |-> 0] :
        n \in Networks, p \in {{}, {1, 2}}}
    \cup
    {[cfg |-> [net |-> "main", blockmaxsize |-> m, blockprioritysize |-> ps,
               blockminsize |-> mn, keyOk |-> k, solver |-> "default",
               rands |-> RandHashes, coinbaseFlags |-> NoFlags],
      files |-> DefaultFiles, pool |-> {1, 5}, height |-> 0] :
        m \in {-1, 500, 1007}, ps \in {0, 1005, 5000}, mn \in {0, 1004}, k \in BOOLEAN}
    \cup
    {[cfg |-> [DefaultCfg("main") EXCEPT !.blockmaxsize = -1, !.blockprioritysize = ps,
                                        !.blockminsize = 1010],
      files |-> DefaultFiles, pool |-> p, height |-> 0] :
        ps \in {0, 1005}, p \in {{1, 5}, {5, 8}}}
    \cup
    {[cfg |-> [DefaultCfg("main") EXCEPT !.coinbaseFlags = fl],
      files |-> DefaultFiles, pool |-> {}, height |-> 0] : fl \in {ShortFlags, LongFlags}}

(* scenarios in which GetRandHash may return any value *)
RandScenarios ==
    {[cfg |-> [DefaultCfg(n) EXCEPT !.rands = AllRandHashes], files |-> DefaultFiles,
      pool |-> {1}, height |-> h] :
        n \in {"main"}, h \in {0, ForkStartHeight - 1}}

(* fork-mode scenarios: the snapshot files vary *)
ForkScenarios ==
    {[cfg |-> DefaultCfg("main"), files |-> [DefaultFiles EXCEPT ![ForkStartHeight] = f],
      pool |-> {}, height |-> ForkStartHeight - 1] :
        f \in TransparentFiles \cup {NoFile}}
    \cup
    {[cfg |-> DefaultCfg(n), files |-> [DefaultFiles EXCEPT ![ForkStartHeight] = f],
      pool |-> {}, height |-> ForkStartHeight - 1] :
        n \in Networks, f \in {DefaultTransparentFile, NoFile}}
    \cup
    {[cfg |-> DefaultCfg("main"), files |-> [DefaultFiles EXCEPT ![ZUtxoMiningStartBlock] = f],
      pool |-> {}, height |-> ZUtxoMiningStartBlock - 1] :
        f \in ShieldedFiles \cup {NoFile}}

Scenarios == StdScenarios \cup ForkScenarios \cup RandScenarios

NULL == [isNull |-> TRUE, ids |-> {}]
ThreadGroup(ids) == [isNull |-> FALSE, ids |-> ids]

(* before the first GenerateBitcoins call: minerThreads is NULL (line 1444)
   and no miner thread exists *)
SupInit ==
    [minerThreads |-> NULL,   \* the static thread group: NULL or a group of thread ids
     threads |-> <<>>,        \* every miner thread created so far, in creation order
     gpc |-> "idle",          \* where the running GenerateBitcoins call is
     fGenerate |-> FALSE,     \* arguments of the last call
     nThreadsArg |-> 0,
     nThreads |-> 0,          \* the local nThreads after line 1446
     calls |-> 0,             \* GenerateBitcoins calls so far
     work |-> 0,              \* worker events and tip signals so far
     tips |-> 0,              \* NotifyBlockTip signals so far
     polled |-> <<0, FALSE>>] \* the last cancelled() call: the thread, what it returned

Init ==
    \E sc \in Scenarios :
        /\ sup = SupInit
        /\ cfg = sc.cfg
        /\ utxoFiles = sc.files
        /\ chainTip = Tip(sc.height, 0)
        /\ coinsTip = ChainCoins
        /\ mempool = sc.pool
        /\ vNodesEmpty = FALSE
        /\ envSteps = 0
        /\ pc = "Gate"
        /\ pindexPrev = Tip(0, 0)
        /\ isNextBlockFork = FALSE
        /\ tmpl = NullTemplate
        /\ fk = FkIdle
        /\ sb = SbIdle
        /\ wk = WkInit

----------------------------------------------------------------------------
(* The node around the worker *)

(* Steps of the worker that touch only its own locals commute with the
   events of the node, so the tip moves only while the worker stands before
   a step that reads the tip or its cancel flag, and the peer list only
   before a step that reads vNodes (lines 1197 and 1407). *)
EnvObserved ==
    pc \in {"ChooseMode", "FkLock", "FkFinal", "StdStart", "Search",
            "PBFCheck", "PBFProcess", "PostSolve"}

PeersObserved == pc \in {"Gate", "PostSolve"}

(* BitcoinMiner has returned and left its NotifyBlockTip slot connected *)
SlotOutlivesWorker == pc = "Exited" /\ wk.subscribed

(* outcomes of undefined behaviour: the access traps, or it goes unnoticed *)
UBOutcomes == {"fault", "survive"}

(* a block from elsewhere becomes the tip (one higher, or a competing block at
   the same height); NotifyBlockTip reaches the worker's subscription *)
TipChange ==
    /\ ~WorkerHoldsMain
    /\ EnvObserved \/ SlotOutlivesWorker
    /\ envSteps < MaxEnvSteps
    /\ \E t \in {Tip(chainTip.nHeight + 1, 0), Tip(chainTip.nHeight, OtherVariant),
                  Tip(chainTip.nHeight, 0)} :
          /\ t # chainTip
          /\ chainTip' = t
    /\ envSteps' = envSteps + 1
    /\ IF SlotOutlivesWorker
       THEN \* the slot still connected writes through references to locals of
            \* a BitcoinMiner call that has returned
            \E ub \in UBOutcomes :
               /\ pc' = IF ub = "fault" THEN "Crashed" ELSE pc
               /\ wk' = IF ub = "fault" THEN wk ELSE [wk EXCEPT !.cancelSolver = TRUE]
       ELSE /\ pc' = pc
            /\ wk' = IF wk.subscribed THEN [wk EXCEPT !.cancelSolver = TRUE] ELSE wk
    /\ UNCHANGED <<fixedVars, coinsTip, mempool, vNodesEmpty, pindexPrev,
                   isNextBlockFork, tmpl, fk, sb>>

(* another BitcoinMiner thread calls IncrementExtraNonce (line 1272) on a
   template it built on the present tip or on a block that was the tip
   before: the function's static hashPrevBlock (line 1093), which this worker
   reads and writes too, takes that template's hashPrevBlock.  Only the
   last write before this worker's own call is ever read, so the write is
   placed where this worker starts to build a standard template. *)
OtherWorkerExtraNonce ==
    /\ pc = "StdStart"
    /\ envSteps < MaxEnvSteps
    /\ \E h \in {chainTip.hash, HashOf(chainTip.nHeight, OtherVariant)} :
          /\ h # wk.hashPrevBlock
          /\ wk' = [wk EXCEPT !.hashPrevBlock = h]
    /\ envSteps' = envSteps + 1
    /\ UNCHANGED <<fixedVars, chainTip, coinsTip, mempool, vNodesEmpty, pc, pindexPrev,
                   isNextBlockFork, tmpl, fk, sb>>

(* the worker stands at a point where boost looks at the interruption flag:
   the sleep of the peer wait (line 1201), the sleep after a missing snapshot
   (line 1231), or the interruption point behind the solver (line 1404) *)
AtInterruptionPoint ==
    \/ pc = "PostSolve"
    \/ pc = "Gate" /\ MiningRequiresPeers(cfg.net) /\ vNodesEmpty
    \/ pc = "FkFinal" /\ tmpl.isNull /\ fk.bFileNotFound

(* minerThreads->interrupt_all() (line 1451) reaches this worker.  The flag
   is read only at interruption points, so the request is placed where the
   worker stands at one. *)
InterruptRequest ==
    /\ AtInterruptionPoint
    /\ ~wk.interruptRequested
    /\ envSteps < MaxEnvSteps
    /\ wk' = [wk EXCEPT !.interruptRequested = TRUE]
    /\ envSteps' = envSteps + 1
    /\ UNCHANGED <<fixedVars, chainTip, coinsTip, mempool, vNodesEmpty, pc, pindexPrev,
                   isNextBlockFork, tmpl, fk, sb>>

(* boost::thread_interrupted, caught at line 1426: disconnect and rethrow *)
ThrowInterrupted ==
    /\ pc' = "Interrupted"
    /\ wk' = [wk EXCEPT !.subscribed = FALSE]
    /\ tmpl' = tmpl

PeersChange ==
    /\ PeersObserved
    /\ envSteps < MaxEnvSteps
    /\ vNodesEmpty' = ~vNodesEmpty
    /\ envSteps' = envSteps + 1
    /\ UNCHANGED <<fixedVars, chainTip, coinsTip, mempool, pc, pindexPrev,
                   isNextBlockFork, tmpl, fk, sb, wk>>

----------------------------------------------------------------------------
(* Fork Template Builder: CreateNewForkBlock(bFileNotFound, nHeight) *)

(* a size check that forgets the coinbase reserve; C2_SizeWithinCap rejects it *)
ForkSizeExceeds_NoReserve(nBlockSize, nTxSize) == nBlockSize + nTxSize >= MAX_BLOCK_SIZE

ForkSizeExceeds(nBlockSize, nTxSize) == nBlockSize + nTxSize >= MAX_BLOCK_SIZE - 1000

(* a sig-op test that never ends the body; C29_ForkStopsAtFirstViolation
   rejects it *)
ForkSigOpsExceeds_Never(nBlockSigOps, nTxSigOps) == FALSE

ForkSigOpsExceeds(nBlockSigOps, nTxSigOps) == nBlockSigOps + nTxSigOps >= MAX_BLOCK_SIGOPS

(* the template after lines 207-236: dummy coinbase, fee and sig-op placeholders *)
ForkTemplateStart(nHeight) ==
    [NullTemplate EXCEPT !.isNull = FALSE, !.mode = "fork", !.nHeight = nHeight,
                         !.vtx = <<ForkDummyCoinbase(nHeight)>>,
                         !.vTxFees = <<FeePlaceholder>>, !.vTxSigOps = <<-1>>]

(* an append that starts the body afresh; C16_CorruptSnapshotKeepsTemplate
   rejects it *)
ForkAppend_Reset(t, f, tx) ==
    [t |-> [t EXCEPT !.vtx = <<tx>>, !.vTxFees = <<0>>, !.vTxSigOps = <<tx.nSigOps>>],
     f |-> [f EXCEPT !.nBlockSize = @ + tx.nTxSize, !.nBlockSigOps = @ + tx.nSigOps,
                     !.nBlockTx = @ + 1, !.pos = @ + 1]]

(* pblock->vtx.push_back(tx) and the accumulator updates that follow it *)
ForkAppend(t, f, tx) ==
    [t |-> [t EXCEPT !.vtx = Append(@, tx), !.vTxFees = Append(@, 0),
                     !.vTxSigOps = Append(@, tx.nSigOps)],
     f |-> [f EXCEPT !.nBlockSize = @ + tx.nTxSize, !.nBlockSigOps = @ + tx.nSigOps,
                     !.nBlockTx = @ + 1, !.pos = @ + 1]]

(* one pass through the body of the record loop: the shielded loop of lines
   244-339 at ZUtxoMiningStartBlock, the transparent loop of lines 342-436
   elsewhere.  done: the loop is left. *)
ForkIter(t, f, file, nHeight) ==
    LET stay == [t |-> t, f |-> f, done |-> TRUE] IN
    IF nHeight = ZUtxoMiningStartBlock
    THEN IF f.pos > Len(file.recs) THEN stay
         ELSE LET rec == file.recs[f.pos]
                  tx == ShieldedCoinbase(rec)
              IN IF rec.kind = "zero" THEN stay
                 ELSE IF ForkSizeExceeds(f.nBlockSize, tx.nTxSize) THEN stay
                 ELSE IF ForkSigOpsExceeds(f.nBlockSigOps, tx.nSigOps) THEN stay
                 ELSE ForkAppend(t, f, tx) @@ [done |-> FALSE]
    ELSE IF ~(f.nBlockTx < forkCBPerBlock) THEN stay
         ELSE IF f.pos > Len(file.recs) THEN stay
         ELSE LET rec == file.recs[f.pos]
                  tx == TransparentCoinbase(rec, nHeight, f.nBlockTx)
              IN IF ForkSizeExceeds(f.nBlockSize, tx.nTxSize) THEN stay
                 ELSE IF ForkSigOpsExceeds(f.nBlockSigOps, tx.nSigOps) THEN stay
                 ELSE ForkAppend(t, f, tx)
                      @@ [done |-> f.pos = Len(file.recs) /\ file.tail = "badsep"]

(* a header fill that leaves hashReserved as constructed; C9_ReservedHash
   rejects it *)
ForkHeader_NoSentinel(t, rand) == [t EXCEPT !.nNonce = RandomiseNonce(rand)]

(* lines 443-454: nonce, hashReserved, nSolution *)
ForkHeader(t, rand) ==
    [t EXCEPT !.nNonce = RandomiseNonce(rand), !.hashReserved = forkExtraHashSentinel]

(* CreateNewForkBlock(bFileNotFound), lines 149-152: peek at the tip *)
FkLock ==
    /\ pc = "FkLock"
    /\ fk' = [FkIdle EXCEPT !.tipHeight = chainTip.nHeight]
    /\ pc' = "FkOpen"
    /\ UNCHANGED <<fixedVars, nodeVars, pindexPrev, isNextBlockFork, tmpl, sb, wk>>

(* lines 155-156 and 185-236: snap the height, open the snapshot *)
FkOpen ==
    /\ pc = "FkOpen"
    /\ LET nHeight == fk.tipHeight + 1 IN
         IF ~FileAt(nHeight).present
         THEN /\ fk' = [fk EXCEPT !.snappedHeight = fk.tipHeight, !.bFileNotFound = TRUE,
                                  !.nBuilds = @ + 1]
              /\ tmpl' = NullTemplate
              /\ pc' = "FkFinal"
         ELSE /\ fk' = [fk EXCEPT !.snappedHeight = fk.tipHeight, !.pos = 1,
                                  !.nBuilds = @ + 1,
                                  !.nBlockSize = BlockSizeReserve,
                                  !.nBlockSigOps = BlockSigOpsReserve, !.nBlockTx = 0]
              /\ tmpl' = ForkTemplateStart(nHeight)
              /\ pc' = "FkBody"
    /\ UNCHANGED <<fixedVars, nodeVars, pindexPrev, isNextBlockFork, sb, wk>>

(* one record; when the loop is left, the header is filled and the inner
   builder returns *)
FkBody ==
    /\ pc = "FkBody"
    /\ LET r == ForkIter(tmpl, fk, FileAt(tmpl.nHeight), tmpl.nHeight) IN
         /\ fk' = r.f
         /\ IF r.done
            THEN /\ \E rand \in cfg.rands :
                      /\ tmpl' = ForkHeader(r.t, rand)
                      /\ wk' = [wk EXCEPT !.rand = rand]
                 /\ pc' = "FkFinal"
            ELSE /\ tmpl' = r.t
                 /\ wk' = wk
                 /\ pc' = "FkBody"
    /\ UNCHANGED <<fixedVars, nodeVars, pindexPrev, isNextBlockFork, sb>>

PowLimitBits == 3

(* GetNextWorkRequired(pindexPrev, pblock): on a network that allows
   minimum-difficulty blocks the result depends on the header's time *)
WorkChoices(prev, net) ==
    {GetNextWorkRequired(prev)} \cup
        (IF fPowAllowMinDifficultyBlocks(net) THEN {PowLimitBits} ELSE {})

(* an outer builder that never looks at the tip again; C7_ForkSnapshotMatchesTip
   rejects it *)
TipDrifted_Never(tipHeight, snappedHeight) == FALSE

(* line 164: did the tip move while the body was built *)
TipDrifted(tipHeight, snappedHeight) == tipHeight # snappedHeight

(* a loop condition that never sends the builder round again;
   C33_ForkBuilderSettles rejects it *)
LoopAgain_Never(snappedHeight, tipHeight) == FALSE

(* line 180: while (snappedHeight != tipHeight) *)
LoopAgain(snappedHeight, tipHeight) == snappedHeight # tipHeight

(* lines 158-180 of the outer builder, and what BitcoinMiner does with the
   result (lines 1226-1243, 1279-1280) *)
FkFinal ==
    /\ pc = "FkFinal"
    /\ fk' = [fk EXCEPT !.tipHeight = chainTip.nHeight,
                        !.nRetries = IF TipDrifted(chainTip.nHeight, fk.snappedHeight)
                                     THEN @ + 1 ELSE @]
    /\ IF TipDrifted(chainTip.nHeight, fk.snappedHeight)
          /\ LoopAgain(fk.snappedHeight, chainTip.nHeight)
       THEN \* tip changed: continue; the loop condition sends us round again
            /\ tmpl' = NullTemplate
            /\ pc' = "FkOpen"
            /\ wk' = wk
       ELSE IF TipDrifted(chainTip.nHeight, fk.snappedHeight)
       THEN \* continue, and the loop condition lets the stale template out
            /\ tmpl' = tmpl
            /\ wk' = wk
            /\ pc' = IF ~tmpl.isNull THEN "Search"
                     ELSE IF fk.bFileNotFound THEN "Gate" ELSE "Exited"
       ELSE IF tmpl.isNull
       THEN \* pblock = &ret->block with ret == NULL, then pblock->hashPrevBlock = ...
            /\ tmpl' = tmpl
            /\ \E ub \in UBOutcomes :
                 IF ub = "fault" THEN pc' = "Crashed" /\ wk' = wk
                 ELSE IF ~fk.bFileNotFound THEN pc' = "Exited" /\ wk' = wk
                 ELSE IF wk.interruptRequested
                 THEN \* MilliSleep(1000), line 1231, is an interruption point
                      pc' = "Interrupted" /\ wk' = [wk EXCEPT !.subscribed = FALSE]
                 ELSE pc' = "Gate" /\ wk' = wk
       ELSE \E bits \in WorkChoices(chainTip, cfg.net), valid \in BOOLEAN :
            /\ tmpl' = [tmpl EXCEPT !.hashPrevBlock = chainTip.hash, !.nBits = bits,
                                    !.nVersion = ComputeBlockVersion(chainTip)]
            /\ IF valid
               THEN /\ pc' = "Search"
                    /\ wk' = [wk EXCEPT !.hashTarget = SetCompact(bits), !.nBitsBuilt = bits]
               ELSE \* TestBlockValidity failed: runtime_error, caught at line 1431
                    /\ pc' = "RuntimeError"
                    /\ wk' = [wk EXCEPT !.subscribed = FALSE]
    /\ UNCHANGED <<fixedVars, nodeVars, pindexPrev, isNextBlockFork, sb>>

----------------------------------------------------------------------------
(* Standard Template Builder: CreateNewBlock *)

(* a size check that lets a candidate fill the block exactly to the cap;
   C23_ExactCapRejected rejects it *)
StdSizeExceeds_Strict(nBlockSize, nTxSize, nBlockMaxSize) == nBlockSize + nTxSize > nBlockMaxSize

StdSizeExceeds(nBlockSize, nTxSize, nBlockMaxSize) == nBlockSize + nTxSize >= nBlockMaxSize

(* a sig-op check that looks at the transaction alone; C3_SigOpsWithinCap
   rejects it *)
StdSigOpsExceeds_TxOnly(nBlockSigOps, nTxSigOps) == nTxSigOps >= MAX_BLOCK_SIGOPS

StdSigOpsExceeds(nBlockSigOps, nTxSigOps) == nBlockSigOps + nTxSigOps >= MAX_BLOCK_SIGOPS

(* a skip that takes no account of the minimum block size;
   C26_FreeSkipInFeePhase rejects it *)
SkipFree_NoMinSize(fSortedByFee, tx, feeRate, nBlockSize, nBlockMinSize) ==
    /\ fSortedByFee
    /\ tx.dPriorityDelta <= 0
    /\ tx.nFeeDelta <= 0
    /\ feeRate < minRelayTxFee

(* line 941: skip free transactions once past the minimum block size *)
SkipFree(fSortedByFee, tx, feeRate, nBlockSize, nBlockMinSize) ==
    /\ fSortedByFee
    /\ tx.dPriorityDelta <= 0
    /\ tx.nFeeDelta <= 0
    /\ feeRate < minRelayTxFee
    /\ nBlockSize + tx.nTxSize >= nBlockMinSize

(* a switch test that forgets the ordering is already by fee;
   C25_SwitchAtMostOnce rejects it *)
SwitchToFee_Always(fSortedByFee, dPriority, nBlockSize, nTxSize, nBlockPrioritySize) ==
    nBlockSize + nTxSize >= nBlockPrioritySize \/ ~AllowFree(dPriority)

(* lines 946-947: leave priority ordering *)
SwitchToFee(fSortedByFee, dPriority, nBlockSize, nTxSize, nBlockPrioritySize) ==
    /\ ~fSortedByFee
    /\ (nBlockSize + nTxSize >= nBlockPrioritySize \/ ~AllowFree(dPriority))

(* the flag assigned the outcome of the test instead of being set by it;
   C24_NoReturnToPriority rejects it *)
NextOrdering_Assigned(fSortedByFee, dPriority, nBlockSize, nTxSize, nBlockPrioritySize) ==
    SwitchToFee(fSortedByFee, dPriority, nBlockSize, nTxSize, nBlockPrioritySize)

(* lines 946-951: fSortedByFee after the test; it is only ever set *)
NextOrdering(fSortedByFee, dPriority, nBlockSize, nTxSize, nBlockPrioritySize) ==
    fSortedByFee \/ SwitchToFee(fSortedByFee, dPriority, nBlockSize, nTxSize,
                                nBlockPrioritySize)

(* tx.ComputePriority(dPriorityInputs, nTxSize) *)
ComputePriority(dPriorityInputs, nTxSize) ==
    IF nTxSize = 0 THEN 0 ELSE dPriorityInputs \div nTxSize

(* one pass of the gathering loop, lines 837-906, for pool entry h *)
GatherTx(s, h, pool, hNew) ==
    LET tx == PoolTx(h) IN
    IF IsCoinBase(tx) \/ ~tx.fFinal THEN s
    ELSE
      LET acc == GatherInputs(tx, 1,
                   [porphan |-> 0, orph |-> s.orph, mapDependers |-> s.mapDependers,
                    dPriority |-> 0, nTotalIn |-> 0, fMissingInputs |-> FALSE,
                    nHeight |-> s.nHeight],
                   s.view, pool, hNew)
          s1 == [s EXCEPT !.orph = acc.orph, !.mapDependers = acc.mapDependers]
          dPriority == ComputePriority(acc.dPriority, tx.nTxSize) + tx.dPriorityDelta
          feeRate == CFeeRate(acc.nTotalIn + tx.nFeeDelta - GetValueOut(tx), tx.nTxSize)
      IN IF acc.fMissingInputs THEN s1
         ELSE IF acc.porphan # 0
         THEN [s1 EXCEPT !.orph[acc.porphan].dPriority = dPriority,
                         !.orph[acc.porphan].feeRate = feeRate]
         ELSE [s1 EXCEPT !.vecPriority = BagAdd(@, TxPriority(dPriority, feeRate, h))]

(* a release that queues a depender as soon as one of its parents is added;
   C4_ParentsFirst rejects it *)
RECURSIVE ReleaseDependers_Eager(_, _, _, _, _)
ReleaseDependers_Eager(deps, i, hash, orph, vec) ==
    IF i > Len(deps) THEN [orph |-> orph, vec |-> vec]
    ELSE LET h == deps[i]
             e == orph[h]
         IN IF e.setDependsOn # {}
            THEN ReleaseDependers_Eager(deps, i + 1, hash,
                     [orph EXCEPT ![h].setDependsOn = e.setDependsOn \ {hash}],
                     BagAdd(vec, TxPriority(e.dPriority, e.feeRate, e.ptx)))
            ELSE ReleaseDependers_Eager(deps, i + 1, hash, orph, vec)

(* a release without the test of line 988: every listing of a depender whose
   set is empty after the erase queues it; C39_QueuedAtMostOnce rejects it *)
RECURSIVE ReleaseDependers_EveryListing(_, _, _, _, _)
ReleaseDependers_EveryListing(deps, i, hash, orph, vec) ==
    IF i > Len(deps) THEN [orph |-> orph, vec |-> vec]
    ELSE LET h == deps[i]
             e == orph[h]
             left == e.setDependsOn \ {hash}
         IN ReleaseDependers_EveryListing(deps, i + 1, hash,
                [orph EXCEPT ![h].setDependsOn = left],
                IF left = {}
                THEN BagAdd(vec, TxPriority(e.dPriority, e.feeRate, e.ptx))
                ELSE vec)

(* lines 986-996: release the dependers of the transaction just added *)
RECURSIVE ReleaseDependers(_, _, _, _, _)
ReleaseDependers(deps, i, hash, orph, vec) ==
    IF i > Len(deps) THEN [orph |-> orph, vec |-> vec]
    ELSE LET h == deps[i]
             e == orph[h]
             left == e.setDependsOn \ {hash}
         IN IF e.setDependsOn # {}
            THEN ReleaseDependers(deps, i + 1, hash,
                     [orph EXCEPT ![h].setDependsOn = left],
                     IF left = {}
                     THEN BagAdd(vec, TxPriority(e.dPriority, e.feeRate, e.ptx))
                     ELSE vec)
            ELSE ReleaseDependers(deps, i + 1, hash, orph, vec)

(* one pass of the selection loop, lines 917-997, for the popped entry e;
   ub decides what a read through a dangling COrphan pointer does *)
SelectStep(s, t, e, ub) ==
    LET tx == PoolTx(e.ptx)
        s1 == [s EXCEPT !.vecPriority = BagRemove(@, e)]
        sw == SwitchToFee(s.fSortedByFee, e.dPriority, s.nBlockSize, tx.nTxSize,
                          s.nBlockPrioritySize)
        s2 == [s1 EXCEPT !.fSortedByFee =
                            NextOrdering(@, e.dPriority, s.nBlockSize, tx.nTxSize,
                                         s.nBlockPrioritySize),
                         !.nSwitches = IF sw THEN @ + 1 ELSE @,
                         !.trigger = IF sw THEN tx.hash ELSE @]
        nTxFees == GetValueIn(tx, 1) - GetValueOut(tx)
        nTxSigOps == tx.nSigOps + tx.nP2SH
        deps == s.mapDependers[tx.hash]
        dangling == \E i \in 1..Len(deps) : ~s.orph[deps[i]].live
        rel == ReleaseDependers(deps, 1, tx.hash, s.orph, s2.vecPriority)
        skip(sx) == [sb |-> [sx EXCEPT !.skipAt = IF @ = -1 THEN s.nBlockTx ELSE @],
                     t |-> t, fault |-> FALSE]
    IN
    IF StdSizeExceeds(s.nBlockSize, tx.nTxSize, s.nBlockMaxSize) THEN skip(s1)
    ELSE IF StdSigOpsExceeds(s.nBlockSigOps, tx.nSigOps) THEN skip(s1)
    ELSE IF SkipFree(s.fSortedByFee, tx, e.feeRate, s.nBlockSize, s.nBlockMinSize)
         THEN skip(s1)
    ELSE IF ~HaveInputs(s.view, tx) THEN skip(s2)
    ELSE IF StdSigOpsExceeds(s.nBlockSigOps, nTxSigOps) THEN skip(s2)
    ELSE IF ~tx.fCheck THEN skip(s2)
    ELSE
      [sb |-> [s2 EXCEPT !.view = UpdateCoins(@, tx),
                         !.nBlockSize = @ + tx.nTxSize,
                         !.nBlockTx = @ + 1,
                         !.nBlockSigOps = @ + nTxSigOps,
                         !.nFees = @ + nTxFees,
                         !.orph = rel.orph,
                         !.vecPriority = rel.vec],
       t |-> [t EXCEPT !.vtx = Append(@, tx), !.vTxFees = Append(@, nTxFees),
                       !.vTxSigOps = Append(@, nTxSigOps)],
       fault |-> dangling /\ ub = "fault"]

RECURSIVE SortedSeq(_)
SortedSeq(S) ==
    IF S = {} THEN <<>>
    ELSE LET m == CHOOSE x \in S : \A y \in S : x <= y IN <<m>> \o SortedSeq(S \ {m})

(* a coinbase that pays the subsidy alone; C11_CoinbasePaysSubsidyPlusFees
   rejects it *)
StdCoinbase_NoFees(nHeight, nFees) ==
    [hash |-> 0, vin |-> <<NullOutpoint>>, vout |-> <<GetBlockSubsidy(nHeight)>>,
     scriptSig |-> <<PushNum(nHeight), Op0>>,
     nTxSize |-> 4, nSigOps |-> 1, nP2SH |-> 0, fFinal |-> TRUE, fCheck |-> TRUE,
     dPriorityDelta |-> 0, nFeeDelta |-> 0]

(* the real coinbase, lines 1003-1013 *)
StdCoinbase(nHeight, nFees) ==
    [hash |-> 0, vin |-> <<NullOutpoint>>, vout |-> <<GetBlockSubsidy(nHeight) + nFees>>,
     scriptSig |-> <<PushNum(nHeight), Op0>>,
     nTxSize |-> 4, nSigOps |-> 1, nP2SH |-> 0, fFinal |-> TRUE, fCheck |-> TRUE,
     dPriorityDelta |-> 0, nFeeDelta |-> 0]

(* a finalization that leaves the dummy transaction in slot 0;
   C1_CoinbasePlacement rejects it *)
StdFinalize_NoCoinbase(t, s, rand, bits) ==
    [t EXCEPT !.vTxFees[1] = -s.nFees,
              !.nNonce = RandomiseNonce(rand),
              !.hashPrevBlock = s.prev.hash,
              !.hashReserved = ZeroHash,
              !.nBits = bits,
              !.vTxSigOps[1] = StdCoinbase(s.nHeight, s.nFees).nSigOps]

(* lines 1015-1031: install the coinbase, fill fees[0], nonce and header *)
StdFinalize(t, s, rand, bits) ==
    [t EXCEPT !.vtx[1] = StdCoinbase(s.nHeight, s.nFees),
              !.vTxFees[1] = -s.nFees,
              !.nNonce = RandomiseNonce(rand),
              !.hashPrevBlock = s.prev.hash,
              !.hashReserved = ZeroHash,
              !.nBits = bits,
              !.vTxSigOps[1] = StdCoinbase(s.nHeight, s.nFees).nSigOps]

(* IncrementExtraNonce, lines 1090-1106; hashPrevBlock is the function's static *)
IncrementExtraNonce(t, w, prev) ==
    LET n == IF w.hashPrevBlock # t.hashPrevBlock THEN 1 ELSE w.nExtraNonce + 1
        sig == <<PushNum(prev.nHeight + 1), PushNum(n)>> \o cfg.coinbaseFlags
    IN
    [t |-> [t EXCEPT !.vtx[1].scriptSig = sig],
     w |-> [w EXCEPT !.nExtraNonce = n, !.hashPrevBlock = t.hashPrevBlock,
                     !.lastPrev = t.hashPrevBlock],
     asserted |-> ScriptSigSize(sig) <= ScriptSigLimit]

(* BitcoinMiner lines 1251-1266, CreateNewBlockWithKey, and CreateNewBlock up
   to the point where cs_main and mempool.cs are taken (lines 783-836) *)
StdStart ==
    /\ pc = "StdStart"
    /\ IF ~cfg.keyOk
       THEN \* GetMinerScriptPubKey found no key: NULL, the worker returns
            /\ pc' = "Exited"
            /\ UNCHANGED <<tmpl, sb>>
       ELSE LET nBlockMaxSize == ClampBlockMaxSize(cfg.blockmaxsize)
                nBlockPrioritySize == ClampToMaxSize(nBlockMaxSize, cfg.blockprioritysize)
            IN
            /\ tmpl' = [NullTemplate EXCEPT !.isNull = FALSE, !.mode = "std",
                           !.nHeight = chainTip.nHeight + 1,
                           !.nVersion = ComputeBlockVersion(chainTip),
                           !.vtx = <<EmptyTx>>, !.vTxFees = <<FeePlaceholder>>,
                           !.vTxSigOps = <<-1>>]
            /\ sb' = [SbIdle EXCEPT
                        !.nBlockMaxSize = nBlockMaxSize,
                        !.nBlockPrioritySize = nBlockPrioritySize,
                        !.nBlockMinSize = ClampToMaxSize(nBlockMaxSize, cfg.blockminsize),
                        !.nHeight = chainTip.nHeight + 1,
                        !.prev = chainTip,
                        !.view = coinsTip,
                        !.todo = SortedSeq(mempool),
                        !.nBlockSize = BlockSizeReserve,
                        !.nBlockSigOps = BlockSigOpsReserve,
                        !.fSortedByFee = (nBlockPrioritySize <= 0)]
            /\ pc' = IF mempool = {} THEN "StdSelect" ELSE "StdGather"
    /\ UNCHANGED <<fixedVars, nodeVars, pindexPrev, isNextBlockFork, fk, wk>>

(* the entries of vecPriority that carry transaction h *)
RECURSIVE CountTx(_, _, _)
CountTx(vec, es, h) ==
    IF es = {} THEN 0
    ELSE LET e == CHOOSE x \in es : TRUE
         IN (IF e.ptx = h THEN vec[e] ELSE 0) + CountTx(vec, es \ {e}, h)

QueuedTx(vec, h) == CountTx(vec, DOMAIN vec, h)

(* the push_back calls of lines 903 and 991 between two states of the queue *)
CountPushes(n, before, after) ==
    [h \in TxIds |-> n[h] + QueuedTx(after, h) - QueuedTx(before, h)]

StdGather ==
    /\ pc = "StdGather"
    /\ \E hNew \in AllocChoices(sb.orph) :
          LET g == GatherTx(sb, Head(sb.todo), mempool, hNew) IN
            sb' = [g EXCEPT !.todo = Tail(sb.todo),
                            !.nPushed = CountPushes(@, sb.vecPriority, g.vecPriority)]
    /\ pc' = IF Len(sb.todo) = 1 THEN "StdSelect" ELSE "StdGather"
    /\ UNCHANGED <<fixedVars, nodeVars, pindexPrev, isNextBlockFork, tmpl, fk, wk>>

StdSelect ==
    /\ pc = "StdSelect"
    /\ DOMAIN sb.vecPriority # {}
    /\ \E e \in HeapFront(sb.vecPriority, sb.fSortedByFee), ub \in UBOutcomes :
          LET r == SelectStep(sb, tmpl, e, ub) IN
            /\ sb' = [r.sb EXCEPT !.nPushed = CountPushes(@, BagRemove(sb.vecPriority, e),
                                                         r.sb.vecPriority)]
            /\ tmpl' = r.t
            /\ pc' = IF r.fault THEN "Crashed" ELSE "StdSelect"
    /\ UNCHANGED <<fixedVars, nodeVars, pindexPrev, isNextBlockFork, fk, wk>>

(* the queue is empty: lines 999-1038, then lines 1267-1280 of BitcoinMiner *)
StdFinish ==
    /\ pc = "StdSelect"
    /\ DOMAIN sb.vecPriority = {}
    /\ \E rand \in cfg.rands, bits \in WorkChoices(sb.prev, cfg.net), valid \in BOOLEAN :
          LET t == StdFinalize(tmpl, sb, rand, bits)
              r == IncrementExtraNonce(t, wk, pindexPrev)
          IN IF valid /\ ~r.asserted
             THEN \* the assert at line 1102 fails: abort() ends the process
                  /\ tmpl' = t
                  /\ wk' = [r.w EXCEPT !.rand = rand]
                  /\ pc' = "Aborted"
             ELSE IF valid
             THEN /\ tmpl' = r.t
                  /\ wk' = [r.w EXCEPT !.hashTarget = SetCompact(bits), !.rand = rand,
                                       !.nBitsBuilt = bits]
                  /\ pc' = "Search"
             ELSE /\ tmpl' = t
                  /\ wk' = [wk EXCEPT !.subscribed = FALSE, !.rand = rand]
                  /\ pc' = "RuntimeError"
    /\ sb' = SbIdle
    /\ UNCHANGED <<fixedVars, nodeVars, pindexPrev, isNextBlockFork, fk>>

----------------------------------------------------------------------------
(* Mining Loop: BitcoinMiner *)

HashValues == {2, 5, 7}      \* block hashes a candidate solution may give
NoSolution == 0              \* the solver run produced no candidate

LowMask == Pow2(FlagBits) - 1

(* lines 1188-1205: wait for peers.  A failed poll sleeps and polls again,
   which leaves the state as it is. *)
Gate ==
    /\ pc = "Gate"
    /\ IF MiningRequiresPeers(cfg.net) /\ vNodesEmpty
       THEN \* MilliSleep(1000) is an interruption point
            /\ wk.interruptRequested
            /\ ThrowInterrupted
       ELSE /\ pc' = "ChooseMode"
            /\ UNCHANGED <<tmpl, wk>>
    /\ UNCHANGED <<fixedVars, nodeVars, pindexPrev, isNextBlockFork, fk, sb>>

(* lines 1207-1216: read the tip without cs_main and pick the mode *)
ChooseMode ==
    /\ pc = "ChooseMode"
    /\ wk.nIterations < MaxIterations
    /\ pindexPrev' = chainTip
    /\ isNextBlockFork' = isForkBlock(chainTip.nHeight + 1)
    /\ pc' = IF isForkBlock(chainTip.nHeight + 1) THEN "FkLock" ELSE "StdStart"
    /\ tmpl' = NullTemplate
    /\ fk' = FkIdle
    /\ wk' = [wk EXCEPT !.nIterations = @ + 1, !.lastSubmit = "none", !.rand = 0,
                        !.nSolves = 0, !.nAdvances = 0]
    /\ UNCHANGED <<fixedVars, nodeVars, sb>>

(* a comparison turned round; C5_SubmitOnlyAtOrBelowTarget rejects it *)
AboveTarget_Flipped(hash, hashTarget) == hash < hashTarget

(* validBlock's comparison, line 1319 *)
AboveTarget(hash, hashTarget) == hash > hashTarget

(* the solver runs once on the current header and nonce, lines 1284-1401 *)
Search ==
    /\ pc = "Search"
    /\ \/ \* no candidate, or only candidates validBlock turned down
          /\ \E hv \in HashValues \cup {NoSolution} :
                hv # NoSolution => AboveTarget(hv, wk.hashTarget)
          /\ wk' = [wk EXCEPT !.nSolves = @ + 1]
          /\ tmpl' = tmpl
          /\ pc' = "PostSolve"
       \/ \* EhSolverCancelledException: the default solver polled cancelled()
          /\ cfg.solver = "default"
          /\ wk.cancelSolver
          /\ wk' = [wk EXCEPT !.cancelSolver = FALSE, !.nSolves = @ + 1]
          /\ tmpl' = tmpl
          /\ pc' = "PostSolve"
       \/ \* validBlock finds the hash at or below the target
          /\ \E hv \in HashValues :
                /\ ~AboveTarget(hv, wk.hashTarget)
                /\ wk' = [wk EXCEPT !.candHash = hv, !.nSolves = @ + 1]
          /\ tmpl' = tmpl
          /\ pc' = "PBFCheck"
    /\ UNCHANGED <<fixedVars, nodeVars, pindexPrev, isNextBlockFork, fk, sb>>

(* the rest of validBlock once ProcessBlockFound has returned (res: how it
   ended; it returns true only for an accepted block), lines
   1328-1347, and the solver-specific break that follows *)
AfterFound(res) ==
    /\ IF MineBlocksOnDemand(cfg.net) /\ ~isNextBlockFork
       THEN \* throw boost::thread_interrupted, caught at line 1426
            /\ pc' = "Interrupted"
            /\ wk' = [wk EXCEPT !.cancelSolver = IF res = "accepted" THEN FALSE ELSE @,
                                !.subscribed = FALSE, !.candHash = 0,
                                !.lastSubmit = res]
            /\ tmpl' = tmpl
       ELSE /\ wk' = [wk EXCEPT !.cancelSolver = IF res = "accepted" THEN FALSE ELSE @,
                                !.candHash = 0, !.lastSubmit = res]
            /\ IF cfg.solver = "default"
               THEN pc' = "Gate" /\ tmpl' = NullTemplate
               ELSE pc' = "PostSolve" /\ tmpl' = tmpl

(* a submission without the staleness test; C35_CheckedBeforeHandOff rejects it *)
IsStale_Never(t, tip) == FALSE

(* a staleness test by height, blind to a competing block at the same height;
   C6_StaleNotSubmitted rejects it *)
IsStale_ByHeight(t, tip) == t.nHeight # tip.nHeight + 1

(* ProcessBlockFound, line 1122 *)
IsStale(t, tip) == t.hashPrevBlock # tip.hash

(* ProcessBlockFound, lines 1121-1125: the staleness check under cs_main *)
PBFCheck ==
    /\ pc = "PBFCheck"
    /\ IF IsStale(tmpl, chainTip)
       THEN AfterFound("stale")
       ELSE pc' = "PBFProcess" /\ UNCHANGED <<tmpl, wk>>
    /\ UNCHANGED <<fixedVars, nodeVars, pindexPrev, isNextBlockFork, fk, sb>>

RECURSIVE ConnectCoins(_, _, _)
ConnectCoins(view, vtx, i) ==
    IF i > Len(vtx) THEN view
    ELSE ConnectCoins(IF IsCoinBase(vtx[i]) THEN view ELSE UpdateCoins(view, vtx[i]),
                      vtx, i + 1)

(* ProcessBlockFound, lines 1127-1147: ProcessNewBlock.  An accepted block
   that extends the tip becomes the tip; its transactions leave the pool. *)
PBFProcess ==
    /\ pc = "PBFProcess"
    /\ \E accepted \in BOOLEAN :
          /\ IF accepted /\ ~IsStale(tmpl, chainTip)
             THEN /\ chainTip' = Tip(chainTip.nHeight + 1, MinedVariant)
                  /\ coinsTip' = ConnectCoins(coinsTip, tmpl.vtx, 1)
                  /\ mempool' = mempool \ {tmpl.vtx[i].hash : i \in 1..Len(tmpl.vtx)}
                  /\ AfterFound("accepted")
             ELSE /\ UNCHANGED <<chainTip, coinsTip, mempool>>
                  /\ AfterFound(IF accepted THEN "accepted" ELSE "rejected")
    /\ UNCHANGED <<fixedVars, vNodesEmpty, envSteps, pindexPrev, isNextBlockFork, fk, sb>>

(* a search loop that keeps the target it started with;
   C32_TargetFollowsBits rejects it *)
Retarget_Never(net, hashTarget, bits) == hashTarget

(* lines 1420-1423: hashTarget.SetCompact(pblock->nBits) where UpdateTime may
   have changed nBits *)
Retarget(net, hashTarget, bits) ==
    IF fPowAllowMinDifficultyBlocks(net) THEN SetCompact(bits) ELSE hashTarget

(* a set of exit tests that does not look at the nonce;
   C40_LowNonceBitsCountSolves rejects it *)
RebuildNeeded_NoNonceTest(noPeers, nNonce, mempoolStale, prev, tip) ==
    \/ noPeers
    \/ mempoolStale
    \/ prev # tip

(* a set of exit tests that does not look at the tip;
   C31_ExitChecksAfterSolve rejects it *)
RebuildNeeded_NoTip(noPeers, nNonce, mempoolStale, prev, tip) ==
    \/ noPeers
    \/ nNonce % Pow2(FlagBits) = LowMask
    \/ mempoolStale

(* lines 1406-1414: the four tests that break out of the search loop *)
RebuildNeeded(noPeers, nNonce, mempoolStale, prev, tip) ==
    \/ noPeers
    \/ nNonce % Pow2(FlagBits) = LowMask
    \/ mempoolStale
    \/ prev # tip

(* lines 1403-1423: the checks after a solver run, then the nonce advance *)
PostSolve ==
    /\ pc = "PostSolve"
    /\ \E mempoolStale \in BOOLEAN :
         IF wk.interruptRequested
         THEN \* boost::this_thread::interruption_point(), line 1404
              ThrowInterrupted
         ELSE IF RebuildNeeded(vNodesEmpty /\ MiningRequiresPeers(cfg.net), tmpl.nNonce,
                               mempoolStale, pindexPrev, chainTip)
         THEN /\ pc' = "Gate"
              /\ tmpl' = NullTemplate
              /\ wk' = wk
         ELSE \E bits \in (IF fPowAllowMinDifficultyBlocks(cfg.net)
                           THEN WorkChoices(pindexPrev, cfg.net) ELSE {tmpl.nBits}) :
              /\ tmpl' = [tmpl EXCEPT !.nNonce = @ + 1, !.nBits = bits]
              /\ wk' = [wk EXCEPT !.hashTarget = Retarget(cfg.net, @, bits),
                                  !.nAdvances = @ + 1]
              /\ pc' = "Search"
    /\ UNCHANGED <<fixedVars, nodeVars, pindexPrev, isNextBlockFork, fk, sb>>

----------------------------------------------------------------------------

Next ==
    \/ TipChange
    \/ PeersChange
    \/ OtherWorkerExtraNonce
    \/ InterruptRequest
    \/ Gate
    \/ ChooseMode
    \/ FkLock
    \/ FkOpen
    \/ FkBody
    \/ FkFinal
    \/ StdStart
    \/ StdGather
    \/ StdSelect
    \/ StdFinish
    \/ Search
    \/ PBFCheck
    \/ PBFProcess
    \/ PostSolve

Spec == Init /\ [][Next]_vars

----------------------------------------------------------------------------
(* GenerateBitcoins and the group of miner threads (lines 1442-1469).  The
   threads are followed only as far as the supervisor can tell them apart:
   created, asked to stop, ended, and each one's own locals. *)

MaxCalls == 2           \* GenerateBitcoins calls per run
MaxWork == 2            \* worker events and tip signals followed per run
GetNumCores == 2
ThreadArgs == {-1, 0, 1, 2}

minerVars == <<cfg, utxoFiles, chainTip, coinsTip, mempool, vNodesEmpty, envSteps,
               pc, pindexPrev, isNextBlockFork, tmpl, fk, sb, wk>>

ThreadCount_AsGiven(nThreads) == nThreads

(* lines 1446-1447 *)
ThreadCount(nThreads) == IF nThreads < 0 THEN GetNumCores ELSE nThreads

(* the locals a thread has when BitcoinMiner starts (lines 1161-1167) *)
NewThread(id, gen) ==
    [gen |-> gen,               \* the call that created it
     status |-> "running",
     interruptRequested |-> FALSE,
     reservekey |-> id,         \* the CReserveKey object constructed at line 1164
     nExtraNonce |-> 0,
     cancelSolver |-> FALSE]    \* the flag of line 1175, behind the thread's own m_cs

(* interrupt_all (line 1451): every thread of the group is asked to stop *)
InterruptAll(group, threads) ==
    [i \in DOMAIN threads |->
        IF i \in group THEN [threads[i] EXCEPT !.interruptRequested = TRUE]
        ELSE threads[i]]

(* entry of a call: the arguments, and line 1446 *)
GBEnter ==
    /\ sup.gpc = "idle"
    /\ sup.calls < MaxCalls
    /\ \E fGenerate \in BOOLEAN, nThreads \in ThreadArgs :
          sup' = [sup EXCEPT !.gpc = "stop",
                             !.fGenerate = fGenerate,
                             !.nThreadsArg = nThreads,
                             !.nThreads = ThreadCount(nThreads),
                             !.calls = @ + 1]
    /\ UNCHANGED minerVars

(* lines 1449-1459: interrupt and delete the old group, return when no
   thread is wanted, otherwise make the new group.  Deleting the group
   deletes its thread objects, which detaches the threads. *)
GBStopPrior ==
    /\ sup.gpc = "stop"
    /\ LET stopped == IF sup.minerThreads # NULL
                      THEN InterruptAll(sup.minerThreads.ids, sup.threads)
                      ELSE sup.threads
       IN  IF sup.nThreads = 0 \/ ~sup.fGenerate
           THEN sup' = [sup EXCEPT !.threads = stopped,
                                   !.minerThreads = NULL,
                                   !.gpc = "idle"]
           ELSE sup' = [sup EXCEPT !.threads = stopped,
                                   !.minerThreads = ThreadGroup({}),
                                   !.gpc = IF 0 < sup.nThreads
                                           THEN "create" ELSE "idle"]
    /\ UNCHANGED minerVars

(* one pass of the loop at lines 1461-1468 *)
GBCreateThread ==
    /\ sup.gpc = "create"
    /\ LET id == Len(sup.threads) + 1
           group == sup.minerThreads.ids \cup {id}
       IN  sup' = [sup EXCEPT !.threads = Append(@, NewThread(id, sup.calls)),
                              !.minerThreads = ThreadGroup(group),
                              !.gpc = IF Cardinality(group) < sup.nThreads
                                      THEN "create" ELSE "idle"]
    /\ UNCHANGED minerVars

(* a running thread gets to IncrementExtraNonce (line 1272) *)
WorkerExtraNonce ==
    /\ sup.work < MaxWork
    /\ \E i \in DOMAIN sup.threads :
          /\ sup.threads[i].status = "running"
          /\ sup' = [sup EXCEPT !.threads[i].nExtraNonce = @ + 1, !.work = @ + 1]
    /\ UNCHANGED minerVars

(* a thread that was asked to stop reaches an interruption point: it leaves
   through the handler at lines 1426-1430 *)
WorkerInterrupted ==
    /\ \E i \in DOMAIN sup.threads :
          /\ sup.threads[i].status = "running"
          /\ sup.threads[i].interruptRequested
          /\ sup' = [sup EXCEPT !.threads[i].status = "terminated"]
    /\ UNCHANGED minerVars

(* a thread leaves through the runtime_error handler (lines 1431-1435) *)
WorkerRuntimeError ==
    /\ sup.work < MaxWork
    /\ \E i \in DOMAIN sup.threads :
          /\ sup.threads[i].status = "running"
          /\ ~sup.threads[i].interruptRequested
          /\ sup' = [sup EXCEPT !.threads[i].status = "returned", !.work = @ + 1]
    /\ UNCHANGED minerVars

(* a signal that reaches the first subscriber only; C21_OwnCancelFlag
   rejects it *)
NotifyBlockTip_FirstOnly(threads) ==
    [i \in DOMAIN threads |->
        IF threads[i].status = "running" /\ i = 1
        THEN [threads[i] EXCEPT !.cancelSolver = TRUE]
        ELSE threads[i]]

(* uiInterface.NotifyBlockTip: the slot each thread connected at lines
   1176-1180 runs; a thread that has left has disconnected its slot *)
NotifyBlockTip(threads) ==
    [i \in DOMAIN threads |->
        IF threads[i].status = "running"
        THEN [threads[i] EXCEPT !.cancelSolver = TRUE]
        ELSE threads[i]]

(* the node's tip changes through a block from elsewhere *)
SupTipChange ==
    /\ sup.work < MaxWork
    /\ sup' = [sup EXCEPT !.threads = NotifyBlockTip(@), !.tips = @ + 1, !.work = @ + 1]
    /\ UNCHANGED minerVars

(* a thread's solver polls cancelled() (lines 1350-1353); on true the solver
   throws and the handler at lines 1396-1400 clears the thread's flag *)
WorkerCancelled ==
    /\ sup.work < MaxWork
    /\ \E i \in DOMAIN sup.threads :
          /\ sup.threads[i].status = "running"
          /\ sup' = [sup EXCEPT !.polled = <<i, sup.threads[i].cancelSolver>>,
                                !.threads[i].cancelSolver = FALSE,
                                !.work = @ + 1]
    /\ UNCHANGED minerVars

(* a thread's block is accepted (lines 1328-1337): the new tip is signalled
   to every subscriber, then the thread clears its own flag *)
WorkerBlockAccepted ==
    /\ sup.work < MaxWork
    /\ \E i \in DOMAIN sup.threads :
          /\ sup.threads[i].status = "running"
          /\ sup' = [sup EXCEPT !.threads = [NotifyBlockTip(@) EXCEPT ![i].cancelSolver = FALSE],
                                !.tips = @ + 1, !.work = @ + 1]
    /\ UNCHANGED minerVars

InitSup ==
    /\ sup = SupInit
    /\ cfg = DefaultCfg("main")
    /\ utxoFiles = DefaultFiles
    /\ chainTip = Tip(0, 0)
    /\ coinsTip = ChainCoins
    /\ mempool = {}
    /\ vNodesEmpty = FALSE
    /\ envSteps = 0
    /\ pc = "Gate"
    /\ pindexPrev = Tip(0, 0)
    /\ isNextBlockFork = FALSE
    /\ tmpl = NullTemplate
    /\ fk = FkIdle
    /\ sb = SbIdle
    /\ wk = WkInit

NextSup ==
    \/ GBEnter
    \/ GBStopPrior
    \/ GBCreateThread
    \/ WorkerExtraNonce
    \/ WorkerInterrupted
    \/ WorkerRuntimeError
    \/ SupTipChange
    \/ WorkerCancelled
    \/ WorkerBlockAccepted

SpecSup == InitSup /\ [][NextSup]_vars

----------------------------------------------------------------------------
(* The fork builder on its own: a worker that starts at a fork height, the
   tip moving under it, followed until the outer builder has returned.  The
   worker thread keeps being scheduled while it is inside the builder. *)

InForkBuilder == pc \in {"FkLock", "FkOpen", "FkBody", "FkFinal"}

InitFk == Init /\ isForkBlock(chainTip.nHeight + 1)

ForkBuilderStep ==
    \/ FkLock
    \/ FkOpen
    \/ FkBody
    \/ FkFinal

NextFk ==
    \/ TipChange
    \/ Gate
    \/ ChooseMode
    \/ ForkBuilderStep

SpecFk == InitFk /\ [][NextFk]_vars /\ WF_vars(ForkBuilderStep)

----------------------------------------------------------------------------
(* Properties *)

(* the worker holds a template a builder has returned *)
Built == pc \in {"Search", "PBFCheck", "PBFProcess", "PostSolve"} /\ ~tmpl.isNull

(* the transactions after slot 0 *)
Appended(t) == Tail(t.vtx)

AppendedSize(t) == SumSeq([i \in 1..Len(t.vtx) - 1 |-> t.vtx[i + 1].nTxSize])

AppendedSigOps(t) == SumSeq(Tail(t.vTxSigOps))

TemplateHashes(t) == [i \in 1..Len(t.vtx) |-> t.vtx[i].hash]

(* C1 as stated: in every returned template, of either builder, slot 0 is a
   coinbase and no later slot is one.  Fork templates refute it. *)
C1_Original ==
    Built => /\ IsCoinBase(tmpl.vtx[1])
             /\ \A i \in 2..Len(tmpl.vtx) : ~IsCoinBase(tmpl.vtx[i])

(* C1, amended: in every returned template slot 0 is a coinbase; in a
   standard template no later slot is a coinbase, in a fork template every
   later slot is one. *)
C1_CoinbasePlacement ==
    Built => /\ IsCoinBase(tmpl.vtx[1])
             /\ \A i \in 2..Len(tmpl.vtx) :
                   IsCoinBase(tmpl.vtx[i]) <=> isNextBlockFork

C1_Witness ==
    /\ Built
    /\ isNextBlockFork
    /\ Len(tmpl.vtx) >= 3
    /\ \A i \in 1..Len(tmpl.vtx) : IsCoinBase(tmpl.vtx[i])

(* C2: the size accumulator starts at the 1000-byte reserve and stays equal
   to the reserve plus the sizes of the transactions appended so far; that
   sum never exceeds the cap, which is the clamped blockmaxsize in the
   standard builder and MAX_BLOCK_SIZE - 1000 in the fork builder. *)
C2_SizeWithinCap ==
    /\ pc \in {"StdGather", "StdSelect"} =>
          /\ sb.nBlockMaxSize =
                Max(1000, Min(MAX_BLOCK_SIZE - 1000, ToUInt(cfg.blockmaxsize)))
          /\ sb.nBlockSize = 1000 + AppendedSize(tmpl)
          /\ sb.nBlockSize <= sb.nBlockMaxSize
    /\ pc = "FkBody" =>
          /\ fk.nBlockSize = 1000 + AppendedSize(tmpl)
          /\ fk.nBlockSize <= MAX_BLOCK_SIZE - 1000
    /\ Built =>
          1000 + AppendedSize(tmpl) <=
             IF isNextBlockFork THEN MAX_BLOCK_SIZE - 1000
             ELSE Max(1000, Min(MAX_BLOCK_SIZE - 1000, ToUInt(cfg.blockmaxsize)))

(* a fork template filled to one below the cap *)
C2_Witness ==
    /\ Built
    /\ isNextBlockFork
    /\ Len(tmpl.vtx) = 3
    /\ 1000 + AppendedSize(tmpl) = MAX_BLOCK_SIZE - 1000 - 1

(* C3: the sig-op accumulator starts at the reserve of 100 and stays equal to
   the reserve plus the counts recorded for the appended transactions
   (legacy plus P2SH in the standard builder, legacy in the fork builder);
   that sum never exceeds MAX_BLOCK_SIGOPS. *)
C3_SigOpsWithinCap ==
    /\ pc \in {"StdGather", "StdSelect"} =>
          /\ sb.nBlockSigOps = 100 + AppendedSigOps(tmpl)
          /\ sb.nBlockSigOps <= MAX_BLOCK_SIGOPS
          /\ \A i \in 2..Len(tmpl.vtx) :
                tmpl.vTxSigOps[i] = tmpl.vtx[i].nSigOps + tmpl.vtx[i].nP2SH
    /\ pc = "FkBody" =>
          /\ fk.nBlockSigOps = 100 + AppendedSigOps(tmpl)
          /\ fk.nBlockSigOps <= MAX_BLOCK_SIGOPS
          /\ \A i \in 2..Len(tmpl.vtx) : tmpl.vTxSigOps[i] = tmpl.vtx[i].nSigOps
    /\ Built =>
          /\ Len(tmpl.vTxSigOps) = Len(tmpl.vtx)
          /\ 100 + AppendedSigOps(tmpl) <= MAX_BLOCK_SIGOPS

(* a standard template one below the sig-op cap, with a P2SH count in it *)
C3_Witness ==
    /\ Built
    /\ ~isNextBlockFork
    /\ Len(tmpl.vtx) >= 3
    /\ \E i \in 2..Len(tmpl.vtx) : tmpl.vtx[i].nP2SH > 0
    /\ 100 + AppendedSigOps(tmpl) = MAX_BLOCK_SIGOPS - 1

(* the parents of pool entry h that were in the pool and not in the chain
   when the builder took its snapshot *)
PoolParents(h) ==
    {op[1] : op \in {o \in Inputs(h) : o[1] \in mempool /\ ~HaveCoins(coinsTip, o[1])}}

(* how often entry e sits in the queue *)
Queued(vec, e) == IF e \in DOMAIN vec THEN vec[e] ELSE 0

(* C4: in a standard template every in-pool parent of the transaction in a
   slot sits in an earlier slot, and a transaction that waited on parents
   enters the priority queue only in a step after which all of them are in
   the template. *)
C4_ParentsFirst ==
    /\ [](pc \in {"StdSelect", "Search"} /\ ~isNextBlockFork =>
            \A i \in 2..Len(tmpl.vtx) : \A p \in PoolParents(tmpl.vtx[i].hash) :
               \E j \in 1..(i - 1) : tmpl.vtx[j].hash = p)
    /\ [][pc = "StdSelect" =>
            \A e \in DOMAIN sb'.vecPriority :
               Queued(sb'.vecPriority, e) > Queued(sb.vecPriority, e) =>
                  PoolParents(e.ptx) \subseteq SeqToSet(TemplateHashes(tmpl'))]_vars

(* a transaction with two in-pool parents sits behind both of them *)
C4_Witness ==
    /\ pc = "Search"
    /\ ~isNextBlockFork
    /\ Len(tmpl.vtx) = 4
    /\ Cardinality(PoolParents(tmpl.vtx[4].hash)) = 2

(* C5: a block reaches ProcessBlockFound only with a hash that is not above
   the target of its template; a candidate above the target is turned down
   without a submission. *)
C5_SubmitOnlyAtOrBelowTarget ==
    /\ [](pc \in {"PBFCheck", "PBFProcess"} =>
            /\ wk.candHash # NoSolution
            /\ wk.candHash <= wk.hashTarget
            /\ wk.hashTarget = SetCompact(tmpl.nBits))
    /\ [][pc = "Search" /\ pc' = "PBFCheck" =>
            wk'.candHash <= wk.hashTarget /\ tmpl' = tmpl]_vars

(* a candidate whose hash equals the target is being submitted *)
C5_Witness ==
    /\ pc = "PBFProcess"
    /\ wk.candHash = wk.hashTarget

Terminated == {"Exited", "Interrupted", "RuntimeError", "Crashed", "Aborted"}

(* C6 as stated: when the tip is no longer the block's predecessor at
   submission, ProcessNewBlock is not invoked, ProcessBlockFound fails
   without resetting anything, and the worker keeps running.  A standard-mode
   worker on a mine-on-demand network refutes the last part. *)
C6_Original ==
    [][pc = "PBFCheck" /\ pc' # pc /\ tmpl.hashPrevBlock # chainTip.hash =>
          /\ pc' # "PBFProcess"
          /\ chainTip' = chainTip
          /\ wk'.cancelSolver = wk.cancelSolver
          /\ pc' \notin Terminated]_vars

(* C6, amended: when the tip is no longer the block's predecessor at
   submission, ProcessNewBlock is not invoked and ProcessBlockFound fails
   without resetting the cancel flag; the worker keeps running, except in
   standard mode on a mine-on-demand network, where validBlock raises the
   thread interruption after ProcessBlockFound whatever it returned, and the
   worker ends. *)
C6_StaleNotSubmitted ==
    [][pc = "PBFCheck" /\ pc' # pc /\ tmpl.hashPrevBlock # chainTip.hash =>
          /\ pc' # "PBFProcess"
          /\ chainTip' = chainTip
          /\ wk'.cancelSolver = wk.cancelSolver
          /\ wk'.lastSubmit = "stale"
          /\ IF MineBlocksOnDemand(cfg.net) /\ ~isNextBlockFork
             THEN pc' = "Interrupted"
             ELSE pc' \in {"Gate", "PostSolve"}]_vars

(* a stale block was turned away and the worker went on *)
C6_Witness ==
    /\ wk.lastSubmit = "stale"
    /\ pc \in {"Gate", "PostSolve"}
    /\ wk.cancelSolver

(* C7: when the outer fork builder hands back a template, the tip height at
   that moment is the height snapped before the body was read, the body is
   the one built for that height plus one, and the predecessor hash is the
   hash of that tip; when the tip height has moved, the attempt is dropped
   and the builder starts again from the new tip. *)
C7_ForkSnapshotMatchesTip ==
    /\ [][pc = "FkFinal" /\ pc' = "Search" =>
            /\ chainTip.nHeight = fk.snappedHeight
            /\ tmpl.nHeight = fk.snappedHeight + 1
            /\ tmpl.vtx[1].scriptSig[1] = PushNum(fk.snappedHeight + 1)
            /\ tmpl'.vtx = tmpl.vtx
            /\ tmpl'.nHeight = tmpl.nHeight
            /\ tmpl'.hashPrevBlock = chainTip.hash]_vars
    /\ [][pc = "FkFinal" /\ pc' # pc /\ chainTip.nHeight # fk.snappedHeight =>
            /\ pc' = "FkOpen"
            /\ tmpl'.isNull
            /\ fk'.tipHeight = chainTip.nHeight]_vars
    /\ [][pc = "FkOpen" /\ pc' # pc => fk'.snappedHeight = fk.tipHeight]_vars

(* a template returned after at least one dropped attempt *)
C7_Witness ==
    /\ pc = "Search"
    /\ isNextBlockFork
    /\ fk.nRetries > 0
    /\ Len(tmpl.vtx) >= 2
    /\ tmpl.nHeight = chainTip.nHeight + 1

(* C8 as stated: when the snapshot file cannot be opened the outer builder
   gives the soft signal and the worker sleeps and tries again; it neither
   ends nor faults, also when the tip does not move during the attempt.  The
   null dereference at line 171 refutes it. *)
C8_MissingFileRetries ==
    [][pc = "FkFinal" /\ pc' # pc /\ tmpl.isNull /\ fk.bFileNotFound =>
          IF chainTip.nHeight # fk.snappedHeight
          THEN pc' = "FkOpen"
          ELSE pc' = "Gate"]_vars

(* C9: a template of the fork builder carries the fork sentinel in
   hashReserved, a template of the standard builder carries zero, and no step
   of the mining loop changes the field. *)
C9_ReservedHash ==
    /\ [](Built => tmpl.hashReserved =
                      IF isNextBlockFork THEN forkExtraHashSentinel ELSE ZeroHash)
    /\ [][Built /\ ~tmpl'.isNull => tmpl'.hashReserved = tmpl.hashReserved]_vars

(* a fork template whose nonce the loop has advanced *)
C9_Witness ==
    /\ pc = "Search"
    /\ isNextBlockFork
    /\ tmpl.hashReserved = forkExtraHashSentinel
    /\ tmpl.nNonce # RandomiseNonce(wk.rand)

(* C10 as stated: in a returned template, of either builder, the fee entry
   of slot 0 is the negated sum of the fee entries of the later slots.  Fork
   templates, whose slot 0 keeps the placeholder, refute it. *)
C10_FeeZeroIsNegatedSum ==
    Built => tmpl.vTxFees[1] = 0 - SumSeq(Tail(tmpl.vTxFees))

(* what the transaction in a slot pays: the values it spends less the values
   it creates *)
FeeOfSlot(t, i) ==
    SumSeq([k \in 1..Len(t.vtx[i].vin) |-> OutValue(t.vtx[i].vin[k])])
       - SumSeq(t.vtx[i].vout)

SelectedFees(t) == SumSeq([i \in 1..Len(t.vtx) - 1 |-> FeeOfSlot(t, i + 1)])

(* C11: the coinbase of a standard template has one output, worth the
   subsidy of the height after the tip the template builds on plus the fees
   of the selected transactions; built from an empty pool the template holds
   the coinbase alone, its fee entry is 0 and the output is the subsidy. *)
C11_CoinbasePaysSubsidyPlusFees ==
    pc = "Search" /\ ~isNextBlockFork =>
       /\ \E v \in {0, OtherVariant, MinedVariant} :
             tmpl.hashPrevBlock = HashOf(tmpl.nHeight - 1, v)
       /\ Len(tmpl.vtx[1].vout) = 1
       /\ tmpl.vtx[1].vout[1] = GetBlockSubsidy(tmpl.nHeight) + SelectedFees(tmpl)
       /\ mempool = {} =>
             /\ Len(tmpl.vtx) = 1
             /\ tmpl.vTxFees[1] = 0
             /\ tmpl.vtx[1].vout[1] = GetBlockSubsidy(tmpl.nHeight)

(* a template whose coinbase collects the fees of two transactions *)
C11_Witness ==
    /\ pc = "Search"
    /\ ~isNextBlockFork
    /\ Len(tmpl.vtx) = 3
    /\ SelectedFees(tmpl) > 0
    /\ tmpl.vtx[1].vout[1] = GetBlockSubsidy(tmpl.nHeight) + SelectedFees(tmpl)

(* C12 as stated: at every height of the fork window, the shielded one
   included, a fork template holds at most forkCBPerBlock synthetic coinbases
   behind the placeholder, however many records the snapshot file has.  The
   shielded loop (lines 244-339) has no such bound and refutes it. *)
C12_ForkCoinbaseCap ==
    Built /\ isNextBlockFork => Len(tmpl.vtx) - 1 <= forkCBPerBlock

(* the record behind slot i of a transparent fork template *)
RecordOfSlot(i) == FileAt(tmpl.nHeight).recs[i - 1]

(* C13 as stated: a transparent record of amount 0 gives a synthetic
   coinbase output of 0, and a record of any amount a > 0 of the 8-byte
   unsigned field gives an output of exactly 2a.  An amount whose double
   does not fit the field refutes it. *)
C13_DoublingRule ==
    Built /\ isNextBlockFork /\ tmpl.nHeight # ZUtxoMiningStartBlock =>
       \A i \in 2..Len(tmpl.vtx) :
          /\ RecordOfSlot(i).amount \in 0..(Pow2(AmountBits) - 1)
          /\ tmpl.vtx[i].vout =
                <<IF RecordOfSlot(i).amount = 0 THEN 0 ELSE 2 * RecordOfSlot(i).amount>>

(* the script the claim expects for the synthetic transaction of per-block
   index idx at target height h *)
ExpectedForkScript(h, idx) ==
    IF idx = 0
    THEN <<PushNum(h), PushNum(idx), PushData(hashPid), Op0>>
    ELSE <<PushNum(h), PushNum(idx), Op0>>

(* C14 as stated: in every fork template, transparent or shielded, the
   script_sig of each synthetic coinbase is push(height), push(its per-block
   index), OP_0, with push(hashPid) before OP_0 for index 0 only.  The
   shielded loop, which never writes a script_sig, refutes it. *)
C14_ForkScriptSig ==
    Built /\ isNextBlockFork =>
       \A i \in 2..Len(tmpl.vtx) :
          tmpl.vtx[i].scriptSig = ExpectedForkScript(tmpl.nHeight, i - 2)

(* the step in which a builder installs the nonce *)
NonceInstalled ==
    \/ pc = "FkBody" /\ pc' = "FkFinal"
    \/ pc = "StdSelect" /\ pc' = "Search"

(* C15: whatever value GetRandHash returns, the nonce a builder installs has
   its top flag bits and its bottom flag bits zero and carries, between them,
   the low bits of the random value (16, 16 and 224 bits in the code). *)
C15_NonceFlagsCleared ==
    [][NonceInstalled =>
          /\ wk'.rand \in AllRandHashes
          /\ tmpl'.nNonce \in 0..(Pow2(NonceBits - FlagBits) - 1)
          /\ tmpl'.nNonce % Pow2(FlagBits) = 0
          /\ tmpl'.nNonce \div Pow2(FlagBits) =
                wk'.rand % Pow2(NonceBits - 2 * FlagBits)]_vars

(* a random value with top and bottom bits set has left a nonce with only a
   middle bit *)
C15_Witness ==
    /\ pc \in {"FkFinal", "Search"}
    /\ wk.rand = Pow2(NonceBits) - 1 - Pow2(FlagBits)
    /\ tmpl.nNonce = Pow2(FlagBits)

(* the snapshot file ends in a cut-off record or a wrong separator *)
SnapshotCorrupt(file) == file.present /\ file.tail \in {"trunc", "badsep"}

(* C16: when the snapshot file opens but a record is cut off or its
   separator is wrong, the inner fork builder stops appending and returns a
   template that is not null and holds the placeholder coinbase and every
   record appended so far; it raises nothing and does not set the
   file-not-found signal. *)
C16_CorruptSnapshotKeepsTemplate ==
    /\ [][pc = "FkBody" /\ SnapshotCorrupt(FileAt(tmpl.nHeight)) =>
            /\ pc' \in {"FkBody", "FkFinal"}
            /\ ~tmpl'.isNull
            /\ fk'.bFileNotFound = fk.bFileNotFound
            /\ Len(tmpl'.vtx) >= Len(tmpl.vtx)
            /\ SubSeq(tmpl'.vtx, 1, Len(tmpl.vtx)) = tmpl.vtx]_vars
    /\ [](pc = "FkFinal" /\ SnapshotCorrupt(FileAt(fk.snappedHeight + 1)) =>
            /\ ~tmpl.isNull
            /\ tmpl.vtx[1] = ForkDummyCoinbase(fk.snappedHeight + 1)
            /\ Len(tmpl.vtx) - 1 <= Len(FileAt(fk.snappedHeight + 1).recs)
            /\ \A i \in 2..Len(tmpl.vtx) :
                  tmpl.vtx[i].nSigOps = FileAt(fk.snappedHeight + 1).recs[i - 1].nSigOps)

(* the builder has returned the placeholder and the one record that came
   before the cut *)
C16_Witness ==
    /\ pc = "FkFinal"
    /\ FileAt(fk.snappedHeight + 1).tail = "trunc"
    /\ Len(FileAt(fk.snappedHeight + 1).recs) = 1
    /\ Len(tmpl.vtx) = 2
    /\ ~fk.bFileNotFound

(* a step in which a builder runs TestBlockValidity on its template *)
ProbeStep ==
    \/ /\ pc = "FkFinal"
       /\ pc' # pc
       /\ ~tmpl.isNull
       /\ chainTip.nHeight = fk.snappedHeight
    \/ /\ pc = "StdSelect"
       /\ pc' # pc
       /\ DOMAIN sb.vecPriority = {}

(* C17 as stated: when the validity probe turns a template down, only the
   current pass is lost; the worker logs the failure and goes round its outer
   loop again, it does not leave.  The catch handler of line 1431, which lies
   outside the loop and returns, refutes it. *)
C17_TemplateInvalidContinues ==
    [][ProbeStep /\ pc' # "Search" => pc' = "Gate" /\ wk'.subscribed]_vars

(* C18 as stated: the hashPrevBlock that IncrementExtraNonce remembers
   belongs to the worker, so with other workers running this worker's
   extra-nonce counter goes back to 1 exactly when the template's prev_hash
   differs from the one of this worker's previous call, and goes up by one
   otherwise.  The remembered hash is a function static shared by all
   workers, which refutes it. *)
C18_ExtraNoncePerWorker ==
    [][pc = "StdSelect" /\ pc' = "Search" =>
          wk'.nExtraNonce = IF tmpl'.hashPrevBlock # wk.lastPrev
                            THEN 1
                            ELSE wk.nExtraNonce + 1]_vars

(* C19 as stated: a GenerateBitcoins call that finds workers of an earlier
   call interrupts and joins them, so every earlier worker has ended before
   the call creates a worker and before it returns.  The code interrupts
   and deletes the group without joining, which refutes it. *)
C19_PriorWorkersJoined ==
    \A i \in DOMAIN sup.threads :
        /\ sup.threads[i].gen < sup.calls
        /\ \/ sup.gpc = "idle"
           \/ \E j \in DOMAIN sup.threads : sup.threads[j].gen = sup.calls
        => sup.threads[i].status # "running"

(* the number of workers the last call's arguments ask for *)
WorkersWanted ==
    IF ~sup.fGenerate \/ sup.nThreadsArg = 0 THEN 0
    ELSE IF sup.nThreadsArg < 0 THEN GetNumCores
    ELSE sup.nThreadsArg

(* C20: once a GenerateBitcoins call has returned, the workers it left are:
   none, with no thread group, when fGenerate is false or the thread count
   is 0; otherwise exactly as many as the thread count (the number of cores
   for a negative count), all created by that call, each with a reserve-key
   object and an extra-nonce counter of its own. *)
C20_WorkersOfLastCall ==
    sup.gpc = "idle" /\ sup.calls > 0 =>
        IF WorkersWanted = 0
        THEN sup.minerThreads = NULL
        ELSE /\ ~sup.minerThreads.isNull
             /\ Cardinality(sup.minerThreads.ids) = WorkersWanted
             /\ sup.minerThreads.ids \subseteq DOMAIN sup.threads
             /\ \A i \in sup.minerThreads.ids : sup.threads[i].gen = sup.calls
             /\ \A i \in sup.minerThreads.ids, j \in DOMAIN sup.threads :
                    i # j => sup.threads[i].reservekey # sup.threads[j].reservekey

(* a second call, with a negative count, has returned over workers of the
   first call, and its workers' extra-nonce counters have moved apart *)
C20_Witness ==
    /\ sup.gpc = "idle"
    /\ sup.calls = 2
    /\ sup.fGenerate
    /\ sup.nThreadsArg < 0
    /\ Cardinality(sup.minerThreads.ids) = GetNumCores
    /\ Len(sup.threads) > GetNumCores
    /\ \E i, j \in sup.minerThreads.ids :
          sup.threads[i].nExtraNonce > sup.threads[j].nExtraNonce

(* the threads whose slot is connected *)
RunningThreads == {i \in DOMAIN sup.threads : sup.threads[i].status = "running"}

(* C21: every thread has a cancel flag of its own: a tip-change signal sets
   the flag of every running thread (the thread whose own block caused the
   signal clears its flag again), a cancelled() call of a thread returns
   that thread's flag, and what a thread does to its flag leaves the flags
   of the others as they are. *)
C21_OwnCancelFlag ==
    /\ [][sup'.tips # sup.tips =>
            \A i \in RunningThreads :
               \/ sup'.threads[i].cancelSolver
               \/ \A j \in RunningThreads \ {i} : sup'.threads[j].cancelSolver]_vars
    /\ [][sup'.polled # sup.polled =>
            sup'.polled[2] = sup.threads[sup'.polled[1]].cancelSolver]_vars
    /\ [][sup'.tips = sup.tips =>
            \A i \in DOMAIN sup.threads :
               sup'.threads[i].cancelSolver # sup.threads[i].cancelSolver =>
                  /\ sup.threads[i].cancelSolver
                  /\ sup'.polled = <<i, TRUE>>
                  /\ \A j \in DOMAIN sup.threads \ {i} :
                        sup'.threads[j].cancelSolver = sup.threads[j].cancelSolver]_vars

(* after a signal that reached two threads, one of them has polled its flag
   and cleared it, the other still holds its own *)
C21_Witness ==
    /\ sup.tips > 0
    /\ sup.polled[2]
    /\ \E j \in RunningThreads :
          /\ j # sup.polled[1]
          /\ sup.threads[j].cancelSolver
          /\ ~sup.threads[sup.polled[1]].cancelSolver

(* C22 as stated: on a mine-on-demand network a standard-mode worker raises
   the thread interruption right after its first submission and ends, so a
   run of the worker leaves exactly one block accepted by the node; in fork
   mode no interruption follows a submission.  The interruption is raised
   whatever ProcessBlockFound returned, so a run can end with no block
   accepted, which refutes it. *)
C22_OneBlockPerRun ==
    /\ pc = "Interrupted" =>
          /\ MineBlocksOnDemand(cfg.net)
          /\ ~isNextBlockFork
          /\ wk.lastSubmit = "accepted"
    /\ wk.lastSubmit # "none" /\ isNextBlockFork => pc # "Interrupted"

(* the queue entry a selection step has popped *)
Popped(e) ==
    /\ e \in DOMAIN sb.vecPriority
    /\ Queued(sb'.vecPriority, e) < Queued(sb.vecPriority, e)

(* the synthetic transaction the fork builder makes of the record it stands at *)
ForkCandidate ==
    IF tmpl.nHeight = ZUtxoMiningStartBlock
    THEN ShieldedCoinbase(FileAt(tmpl.nHeight).recs[fk.pos])
    ELSE TransparentCoinbase(FileAt(tmpl.nHeight).recs[fk.pos], tmpl.nHeight, fk.nBlockTx)

(* C23: in both builders a candidate that would bring the running size
   exactly to the size cap, or the running sig-op count exactly to
   MAX_BLOCK_SIGOPS, is turned down: the template and the accumulators stay
   as they are (and the fork builder leaves its loop). *)
C23_ExactCapRejected ==
    /\ [][pc = "StdSelect" /\ pc' # "Search" /\ pc' # "RuntimeError" =>
            \A e \in DOMAIN sb.vecPriority :
               /\ Popped(e)
               /\ \/ sb.nBlockSize + PoolTx(e.ptx).nTxSize = sb.nBlockMaxSize
                  \/ sb.nBlockSigOps + PoolTx(e.ptx).nSigOps = MAX_BLOCK_SIGOPS
                  \/ sb.nBlockSigOps + PoolTx(e.ptx).nSigOps + PoolTx(e.ptx).nP2SH
                        = MAX_BLOCK_SIGOPS
               => /\ tmpl' = tmpl
                  /\ sb'.nBlockSize = sb.nBlockSize
                  /\ sb'.nBlockSigOps = sb.nBlockSigOps
                  /\ sb'.nBlockTx = sb.nBlockTx]_vars
    /\ [][/\ pc = "FkBody"
          /\ fk.pos <= Len(FileAt(tmpl.nHeight).recs)
          /\ \/ fk.nBlockSize + ForkCandidate.nTxSize = MAX_BLOCK_SIZE - 1000
             \/ fk.nBlockSigOps + ForkCandidate.nSigOps = MAX_BLOCK_SIGOPS
          => /\ tmpl'.vtx = tmpl.vtx
             /\ fk'.nBlockSize = fk.nBlockSize
             /\ fk'.nBlockSigOps = fk.nBlockSigOps
             /\ pc' = "FkFinal"]_vars

(* a standard template that lacks the one pool transaction which would have
   filled it exactly to the cap, although its parent is in the template *)
C23_Witness ==
    /\ pc = "Search"
    /\ ~isNextBlockFork
    /\ mempool = {1, 2, 5}
    /\ TemplateHashes(tmpl) = <<0, 1, 5>>
    /\ BlockSizeReserve + AppendedSize(tmpl) + PoolTx(2).nTxSize
          = ClampBlockMaxSize(cfg.blockmaxsize)

(* a selection pass of CreateNewBlock is under way, before and after the step *)
InSelectionPass ==
    /\ pc \in {"StdGather", "StdSelect"}
    /\ pc' \in {"StdGather", "StdSelect"}

(* C24: within one selection pass of CreateNewBlock, once the queue is
   ordered by fee (fSortedByFee) it stays so, whatever is popped or pushed
   afterwards. *)
C24_NoReturnToPriority ==
    [][InSelectionPass /\ sb.fSortedByFee => sb'.fSortedByFee]_vars

(* the pass has left priority ordering at one transaction and has appended
   another one since *)
C24_Witness ==
    /\ pc = "StdSelect"
    /\ sb.fSortedByFee
    /\ sb.nSwitches = 1
    /\ \E i \in 2..(Len(tmpl.vtx) - 1) : tmpl.vtx[i].hash = sb.trigger

(* C25 as stated: in every selection pass, whatever the pool and the
   options, the switch from priority ordering to fee ordering fires exactly
   once.  A pass over an empty pool, or one that starts in fee ordering,
   refutes it. *)
C25_Original ==
    [][pc = "StdSelect" /\ pc' # pc /\ DOMAIN sb.vecPriority = {} =>
          sb.nSwitches = 1]_vars

(* the popped candidate gets as far as the switch test of lines 946-947 *)
ReachesSwitchTest(e) ==
    /\ ~(sb.nBlockSize + PoolTx(e.ptx).nTxSize >= sb.nBlockMaxSize)
    /\ ~(sb.nBlockSigOps + PoolTx(e.ptx).nSigOps >= MAX_BLOCK_SIGOPS)
    /\ ~(/\ sb.fSortedByFee
         /\ e.feeRate < minRelayTxFee
         /\ sb.nBlockSize + PoolTx(e.ptx).nTxSize >= sb.nBlockMinSize)

(* C25, amended: in a selection pass the switch fires at most once.  It
   fires at the first popped candidate that passes the size, sig-op and
   free-transaction tests while the ordering is by priority and that would
   reach nBlockPrioritySize or is not free-allowed; it never fires in a pass
   that starts in fee ordering (nBlockPrioritySize 0) or whose queue runs
   empty before such a candidate. *)
C25_SwitchAtMostOnce ==
    /\ [](pc \in {"StdGather", "StdSelect"} =>
            /\ sb.nSwitches \in {0, 1}
            /\ sb.nSwitches = 1 <=> (sb.fSortedByFee /\ sb.nBlockPrioritySize > 0))
    /\ [][InSelectionPass /\ pc = "StdSelect" =>
            \A e \in DOMAIN sb.vecPriority :
               Popped(e) =>
                  (sb'.nSwitches = sb.nSwitches + 1 <=>
                     /\ ~sb.fSortedByFee
                     /\ ReachesSwitchTest(e)
                     /\ \/ sb.nBlockSize + PoolTx(e.ptx).nTxSize >= sb.nBlockPrioritySize
                        \/ ~(e.dPriority > AllowFreeThreshold))]_vars

(* a pass that began in priority ordering has emptied its queue with the
   switch fired once *)
C25_Witness ==
    /\ pc = "StdSelect"
    /\ DOMAIN sb.vecPriority = {}
    /\ sb.nBlockPrioritySize > 0
    /\ sb.nSwitches = 1
    /\ sb.nBlockTx >= 2

(* the popped candidate is free: no positive priority or fee delta, and a
   fee rate below the minimum relay fee *)
IsFreeCandidate(e) ==
    /\ PoolTx(e.ptx).dPriorityDelta <= 0
    /\ PoolTx(e.ptx).nFeeDelta <= 0
    /\ e.feeRate < minRelayTxFee

(* the popped candidate passes the size test and the first sig-op test *)
WithinCaps(e) ==
    /\ sb.nBlockSize + PoolTx(e.ptx).nTxSize < sb.nBlockMaxSize
    /\ sb.nBlockSigOps + PoolTx(e.ptx).nSigOps < MAX_BLOCK_SIGOPS

(* the popped candidate passes the tests behind the switch *)
PassesInputChecks(e) ==
    /\ HaveInputs(sb.view, PoolTx(e.ptx))
    /\ sb.nBlockSigOps + PoolTx(e.ptx).nSigOps + PoolTx(e.ptx).nP2SH < MAX_BLOCK_SIGOPS
    /\ PoolTx(e.ptx).fCheck

(* C26: a free candidate popped while the queue is ordered by fee is skipped
   when the block size with it reaches nBlockMinSize, and stays eligible
   when the block with it is still smaller than nBlockMinSize; a free
   candidate popped while the queue is ordered by priority is never skipped
   for being free. *)
C26_FreeSkipInFeePhase ==
    [][pc = "StdSelect" /\ pc' = "StdSelect" =>
          \A e \in DOMAIN sb.vecPriority :
             Popped(e) /\ IsFreeCandidate(e) /\ WithinCaps(e) =>
                IF sb.fSortedByFee
                   /\ sb.nBlockSize + PoolTx(e.ptx).nTxSize >= sb.nBlockMinSize
                THEN tmpl' = tmpl
                ELSE PassesInputChecks(e) =>
                        tmpl'.vtx = Append(tmpl.vtx, PoolTx(e.ptx))]_vars

(* a pass ordered by fee from its start has appended a transaction that pays
   no fee, the block being smaller than nBlockMinSize *)
C26_Witness ==
    /\ pc = "StdSelect"
    /\ sb.fSortedByFee
    /\ sb.nSwitches = 0
    /\ Len(tmpl.vtx) >= 2
    /\ tmpl.vTxFees[Len(tmpl.vtx)] = 0
    /\ sb.nBlockSize < sb.nBlockMinSize

(* e is first among the queued entries by (fee rate, then priority) *)
FirstByFee(e) ==
    \A e2 \in DOMAIN sb.vecPriority :
       \/ e2.feeRate < e.feeRate
       \/ e2.feeRate = e.feeRate /\ e2.dPriority <= e.dPriority

(* e is first among the queued entries by (priority, then fee rate) *)
FirstByPriority(e) ==
    \A e2 \in DOMAIN sb.vecPriority :
       \/ e2.dPriority < e.dPriority
       \/ e2.dPriority = e.dPriority /\ e2.feeRate <= e.feeRate

(* C27: the candidate whose pop switches the ordering was taken in priority
   order and is not subject to the free skip: it is appended when it passes
   the remaining checks, free or not; every candidate popped after the
   switch is the first of the remaining entries by fee rate, then
   priority. *)
C27_TriggerUnderPriorityRules ==
    [][pc = "StdSelect" /\ pc' = "StdSelect" =>
          \A e \in DOMAIN sb.vecPriority :
             Popped(e) =>
                /\ IF sb.fSortedByFee THEN FirstByFee(e) ELSE FirstByPriority(e)
                /\ ~sb.fSortedByFee /\ sb'.fSortedByFee /\ PassesInputChecks(e) =>
                      /\ sb'.trigger = PoolTx(e.ptx).hash
                      /\ tmpl'.vtx = Append(tmpl.vtx, PoolTx(e.ptx))]_vars

(* the candidate that switched the ordering pays no fee, no minimum block
   size shields it, and it is in the template; a candidate popped after it
   in fee order has been appended behind it *)
C27_Witness ==
    /\ pc = "StdSelect"
    /\ sb.nSwitches = 1
    /\ sb.nBlockMinSize = 0
    /\ \E i \in 2..(Len(tmpl.vtx) - 1) :
          /\ tmpl.vtx[i].hash = sb.trigger
          /\ tmpl.vTxFees[i] = 0

(* the popped candidate fails one of the tests of the selection loop: size,
   sig-ops, the free skip, unavailable inputs, sig-ops with P2SH, or the
   contextual input check *)
Rejected(e) ==
    \/ ~WithinCaps(e)
    \/ /\ sb.fSortedByFee
       /\ IsFreeCandidate(e)
       /\ sb.nBlockSize + PoolTx(e.ptx).nTxSize >= sb.nBlockMinSize
    \/ ~PassesInputChecks(e)

(* C28: in the standard builder a rejected candidate leaves the template,
   the running size, count, sig-ops and fees and the UTXO view as they were;
   the loop goes on with the queue less that one entry, so later candidates
   are still tried. *)
C28_RejectedCandidateSkipped ==
    [][pc = "StdSelect" =>
          \A e \in DOMAIN sb.vecPriority :
             Popped(e) /\ Rejected(e) =>
                /\ pc' = "StdSelect"
                /\ tmpl' = tmpl
                /\ sb'.nBlockSize = sb.nBlockSize
                /\ sb'.nBlockTx = sb.nBlockTx
                /\ sb'.nBlockSigOps = sb.nBlockSigOps
                /\ sb'.nFees = sb.nFees
                /\ sb'.view = sb.view
                /\ \A e2 \in DOMAIN sb.vecPriority :
                      Queued(sb'.vecPriority, e2) =
                         Queued(sb.vecPriority, e2) - (IF e2 = e THEN 1 ELSE 0)]_vars

(* a transaction has been appended after a candidate was rejected *)
C28_Witness ==
    /\ pc = "StdSelect"
    /\ sb.skipAt >= 0
    /\ sb.nBlockTx > sb.skipAt
    /\ Len(tmpl.vtx) = sb.nBlockTx + 1

(* the transaction the fork builder makes of record j of the snapshot at
   height h, every earlier record having been appended *)
ForkRecordTx(h, j) ==
    IF h = ZUtxoMiningStartBlock
    THEN ShieldedCoinbase(FileAt(h).recs[j])
    ELSE TransparentCoinbase(FileAt(h).recs[j], h, j - 1)

(* running size and sig-ops of a fork block that holds records 1..j *)
RECURSIVE ForkRunSize(_, _)
ForkRunSize(h, j) ==
    IF j = 0 THEN BlockSizeReserve ELSE ForkRunSize(h, j - 1) + ForkRecordTx(h, j).nTxSize

RECURSIVE ForkRunSigOps(_, _)
ForkRunSigOps(h, j) ==
    IF j = 0 THEN BlockSigOpsReserve
    ELSE ForkRunSigOps(h, j - 1) + ForkRecordTx(h, j).nSigOps

(* record j, coming after records 1..j-1, breaks the size or the sig-op cap *)
ForkRecordViolates(h, j) ==
    \/ ForkRunSize(h, j - 1) + ForkRecordTx(h, j).nTxSize >= MAX_BLOCK_SIZE - 1000
    \/ ForkRunSigOps(h, j - 1) + ForkRecordTx(h, j).nSigOps >= MAX_BLOCK_SIGOPS

(* C29: in the fork builder the first record that breaks the size or the
   sig-op cap ends the body: the step that meets it appends nothing and
   leaves the record loop with the template built so far, and no fork
   template holds that record or any record behind it. *)
C29_ForkStopsAtFirstViolation ==
    /\ [][/\ pc = "FkBody"
          /\ fk' # fk
          /\ fk.pos <= Len(FileAt(tmpl.nHeight).recs)
          /\ \/ fk.nBlockSize + ForkCandidate.nTxSize >= MAX_BLOCK_SIZE - 1000
             \/ fk.nBlockSigOps + ForkCandidate.nSigOps >= MAX_BLOCK_SIGOPS
          => /\ pc' = "FkFinal"
             /\ ~tmpl'.isNull
             /\ tmpl'.vtx = tmpl.vtx]_vars
    /\ [](~tmpl.isNull /\ tmpl.mode = "fork" =>
             \A j \in 1..Len(FileAt(tmpl.nHeight).recs) :
                ForkRecordViolates(tmpl.nHeight, j) => Len(tmpl.vtx) - 1 < j)

(* the fork builder has returned a body that stops before a record breaking
   a cap, although the record behind that one would have fitted *)
C29_Witness ==
    /\ pc = "FkFinal"
    /\ ~tmpl.isNull
    /\ tmpl.mode = "fork"
    /\ Len(tmpl.vtx) >= 2
    /\ LET h == tmpl.nHeight
           j == Len(tmpl.vtx)
       IN /\ j < Len(FileAt(h).recs)
          /\ FileAt(h).recs[j].kind # "zero"
          /\ FileAt(h).recs[j + 1].kind # "zero"
          /\ ForkRecordViolates(h, j)
          /\ ForkRunSize(h, j - 1) + ForkRecordTx(h, j + 1).nTxSize < MAX_BLOCK_SIZE - 1000
          /\ ForkRunSigOps(h, j - 1) + ForkRecordTx(h, j + 1).nSigOps < MAX_BLOCK_SIGOPS

(* C30 as stated: a coinbase whose script_sig comes out longer than 100
   bytes is given up and skipped, so no worker stops over it and no template
   holds a coinbase with such a script.  IncrementExtraNonce asserts the
   limit instead: with COINBASE_FLAGS long enough the process is aborted. *)
C30_OversizedScriptSigSkipped ==
    /\ pc # "Aborted"
    /\ ~tmpl.isNull =>
          \A i \in 1..Len(tmpl.vtx) :
             IsCoinBase(tmpl.vtx[i]) => ScriptSigSize(tmpl.vtx[i].scriptSig) <= ScriptSigLimit

(* one of the four tests behind the interruption point holds; the test on
   the pool and the clock is left out, being a matter of time *)
SureRebuild ==
    \/ vNodesEmpty /\ MiningRequiresPeers(cfg.net)
    \/ tmpl.nNonce % Pow2(FlagBits) = LowMask
    \/ pindexPrev # chainTip

(* C31 as stated: whichever of the checks behind a solver run fires, the
   interruption point included, the template is discarded and the worker
   goes back to the mode choice.  A worker asked to stop refutes it: the
   interruption point ends the worker. *)
C31_Original ==
    [][pc = "PostSolve" /\ pc' # pc /\ (wk.interruptRequested \/ SureRebuild) =>
          pc' = "Gate" /\ tmpl' = NullTemplate]_vars

(* C31, amended: behind a solver run the interruption point comes first and
   ends the worker; otherwise no peers (where peers are required), a nonce
   whose low bits are all ones, or a changed tip discard the template and
   send the worker back to the peer gate and the mode choice; the same
   template goes to the solver again, with the nonce one higher and nothing
   else but the bits changed, only when none of them holds. *)
C31_ExitChecksAfterSolve ==
    [][pc = "PostSolve" /\ pc' # pc =>
          /\ wk.interruptRequested => pc' = "Interrupted" /\ ~wk'.subscribed
          /\ ~wk.interruptRequested /\ SureRebuild =>
                pc' = "Gate" /\ tmpl' = NullTemplate
          /\ pc' \in {"Interrupted", "Gate", "Search"}
          /\ pc' = "Search" =>
                /\ ~wk.interruptRequested /\ ~SureRebuild
                /\ tmpl' = [tmpl EXCEPT !.nNonce = tmpl.nNonce + 1, !.nBits = tmpl'.nBits]]_vars

(* a worker asked to stop while a changed tip also called for a new template
   has ended at the interruption point *)
C31_Witness ==
    /\ pc = "Interrupted"
    /\ wk.interruptRequested
    /\ ~tmpl.isNull
    /\ pindexPrev # chainTip

(* C32: whenever the solver runs or validBlock has compared a hash with the
   target, hashTarget is SetCompact of the header's nBits, also after
   UpdateTime has given the header other bits on a network that allows
   minimum-difficulty blocks; on the other networks a nonce advance changes
   neither nBits nor hashTarget. *)
C32_TargetFollowsBits ==
    /\ [](pc \in {"Search", "PBFCheck", "PBFProcess"} =>
             wk.hashTarget = SetCompact(tmpl.nBits))
    /\ [][pc = "PostSolve" /\ pc' = "Search" /\ ~fPowAllowMinDifficultyBlocks(cfg.net) =>
             tmpl'.nBits = tmpl.nBits /\ wk'.hashTarget = wk.hashTarget]_vars

(* the solver is about to run on a header whose bits UpdateTime has changed
   since the template was built *)
C32_Witness ==
    /\ pc = "Search"
    /\ fPowAllowMinDifficultyBlocks(cfg.net)
    /\ tmpl.nBits # wk.nBitsBuilt
    /\ wk.hashTarget = SetCompact(tmpl.nBits)

(* C33: with the tip changing only finitely often, the outer fork builder
   leaves its retry loop; where the snapshot for the height behind the tip
   can be opened it returns a template or raises the runtime error of a
   failed validity test.  A tip change it observes sends it round once more,
   and it returns from the first build during which the tip stood still:
   one build more than tip changes observed. *)
C33_ForkBuilderSettles ==
    /\ InForkBuilder ~> ~InForkBuilder
    /\ [][pc = "FkFinal" /\ pc' # pc =>
             IF chainTip.nHeight # fk.snappedHeight
             THEN pc' = "FkOpen" /\ fk'.nRetries = fk.nRetries + 1
             ELSE /\ ~InForkBuilder'
                  /\ fk.nBuilds = fk.nRetries + 1
                  /\ FileAt(fk.snappedHeight + 1).present =>
                        \/ pc' = "Search" /\ ~tmpl'.isNull
                        \/ pc' = "RuntimeError"]_vars

(* the outer builder has returned a template from its second build, the tip
   having moved during the first *)
C33_Witness ==
    /\ pc = "Search"
    /\ isNextBlockFork
    /\ ~tmpl.isNull
    /\ fk.nRetries = 1
    /\ fk.nBuilds = 2

(* C34 as stated: a worker that has left BitcoinMiner, by whichever path, has
   disconnected its NotifyBlockTip slot.  The two plain returns, after a
   fork build that failed for another reason than a missing snapshot and
   after CreateNewBlockWithKey gave no template, leave it connected. *)
C34_DisconnectedOnExit ==
    pc \in {"Exited", "Interrupted", "RuntimeError"} => ~wk.subscribed

(* C35 as stated: whenever ProcessNewBlock is about to be called, the block's
   hashPrevBlock is the hash of the tip of that moment.  cs_main is released
   between the staleness test and the call, and a tip change in between
   refutes it. *)
C35_Original ==
    pc = "PBFProcess" => tmpl.hashPrevBlock = chainTip.hash

(* C35, amended: ProcessNewBlock is called only for a block whose
   hashPrevBlock was the hash of the chain tip when ProcessBlockFound tested
   it under cs_main; the tip may change between that test and the call. *)
C35_CheckedBeforeHandOff ==
    [][pc' = "PBFProcess" /\ pc # "PBFProcess" =>
          /\ pc = "PBFCheck"
          /\ tmpl.hashPrevBlock = chainTip.hash
          /\ tmpl' = tmpl
          /\ chainTip' = chainTip]_vars

(* ProcessNewBlock is about to be called with a block whose predecessor was
   the tip at the test and is the tip no longer *)
C35_Witness ==
    /\ pc = "PBFProcess"
    /\ tmpl.hashPrevBlock # chainTip.hash
    /\ tmpl.hashPrevBlock = pindexPrev.hash

(* C36 as stated: a fork-mode template targets a fork height, the height of
   the worker's mode choice being the height the fork builder targets.  A
   tip change between the worker's read and the builder's own read refutes
   the second part. *)
C36_Original ==
    ~tmpl.isNull /\ tmpl.mode = "fork" =>
        /\ isForkBlock(tmpl.nHeight)
        /\ tmpl.nHeight = pindexPrev.nHeight + 1

(* C36, amended: a fork-mode template targets a fork height: the height
   behind the tip the builder itself read under cs_main, for which a
   snapshot exists.  That is the height of the worker's mode choice unless
   the tip height has changed since the worker's unlocked read. *)
C36_ForkTemplateAtForkHeight ==
    ~tmpl.isNull /\ tmpl.mode = "fork" =>
        /\ isForkBlock(tmpl.nHeight)
        /\ tmpl.nHeight = fk.snappedHeight + 1
        /\ isForkBlock(pindexPrev.nHeight + 1)
        /\ tmpl.nHeight = pindexPrev.nHeight + 1 \/ chainTip.nHeight # pindexPrev.nHeight

(* the worker holds a fork template for another height than the one its
   mode choice looked at *)
C36_Witness ==
    /\ Built
    /\ tmpl.mode = "fork"
    /\ isForkBlock(tmpl.nHeight)
    /\ tmpl.nHeight # pindexPrev.nHeight + 1

(* the height of the block with hash h: HashOf turned round *)
HeightOfHash(h) == CHOOSE n \in 0..(ForkStartHeight + forkHeightRange + MaxIterations + MaxEnvSteps) :
                      \E v \in {0, OtherVariant, MinedVariant} : HashOf(n, v) = h

(* C37 as stated: the height in the coinbase script of a standard template
   given to the solver is one more than the height of the block its
   hashPrevBlock names.  IncrementExtraNonce takes the height from the tip
   the worker read without cs_main, the template its hashPrevBlock from the
   tip CreateNewBlock read under it; a tip change in between refutes it. *)
C37_CoinbaseHeightMatchesPrev ==
    Built /\ tmpl.mode = "std" =>
        tmpl.vtx[1].scriptSig[1] = PushNum(HeightOfHash(tmpl.hashPrevBlock) + 1)

(* C38 as stated: while CreateNewBlock gathers and selects, every orphan
   handle in mapDependers points at an entry that is still in vOrphan.  A
   transaction with an input on an in-pool parent followed by an input
   found nowhere refutes it: its entry is popped from vOrphan while the
   parent's dependers keep the pointer. *)
C38_DependersPointAtOrphans ==
    pc \in {"StdGather", "StdSelect"} =>
        \A h \in TxIds : \A i \in 1..Len(sb.mapDependers[h]) :
           /\ sb.mapDependers[h][i] \in DOMAIN sb.orph
           /\ sb.orph[sb.mapDependers[h][i]].live

(* C39: no pool transaction appears more than once in a standard-mode
   template: during a pass every transaction is pushed onto the priority
   queue at most once, also when it is listed several times in the dependers
   of one in-pool parent, the queue never holds two entries of one
   transaction, and a transaction already in the template is not queued *)
C39_QueuedAtMostOnce ==
    /\ pc \in {"StdGather", "StdSelect"} =>
          \A h \in TxIds :
             /\ sb.nPushed[h] <= 1
             /\ QueuedTx(sb.vecPriority, h) <= 1
             /\ (\E i \in 2..Len(tmpl.vtx) : tmpl.vtx[i].hash = h) =>
                    QueuedTx(sb.vecPriority, h) = 0
    /\ (~tmpl.isNull /\ tmpl.mode = "std") =>
          \A i, j \in 2..Len(tmpl.vtx) :
             tmpl.vtx[i].hash = tmpl.vtx[j].hash => i = j

(* a dependent listed twice in the dependers of its parent is in the template *)
C39_Witness ==
    /\ pc = "StdSelect"
    /\ \E p \in TxIds :
          /\ Len(sb.mapDependers[p]) >= 2
          /\ sb.mapDependers[p][1] = sb.mapDependers[p][2]
          /\ \E i, j \in 2..Len(tmpl.vtx) :
                /\ i < j
                /\ tmpl.vtx[i].hash = p
                /\ tmpl.vtx[j].hash = sb.orph[sb.mapDependers[p][1]].ptx
                /\ sb.nPushed[tmpl.vtx[j].hash] = 1

(* C40: while a worker solves one template only the low FlagBits bits of
   the nonce change: the nonce is the builder's nonce plus the number of
   completed advances, the bits above the low FlagBits are those the builder
   chose, and the template is given to the solver at most 2^FlagBits times *)
C40_LowNonceBitsCountSolves ==
    Built =>
       LET initial == RandomiseNonce(wk.rand) IN
         /\ tmpl.nNonce = initial + wk.nAdvances
         /\ tmpl.nNonce \div Pow2(FlagBits) = initial \div Pow2(FlagBits)
         /\ wk.nAdvances <= LowMask
         /\ wk.nSolves <= Pow2(FlagBits)

(* the last solver run a template gets: the low bits are all ones *)
C40_Witness ==
    /\ pc = "PostSolve"
    /\ ~tmpl.isNull
    /\ wk.nSolves = Pow2(FlagBits)
    /\ wk.nAdvances = LowMask
    /\ tmpl.nNonce % Pow2(FlagBits) = LowMask
    /\ tmpl.nNonce \div Pow2(FlagBits) = RandomiseNonce(wk.rand) \div Pow2(FlagBits)

====
